---- MODULE Spec2Model ----
(***************************************************************************)
(* Yorke Peninsula Council development applications scraper.               *)
(*                                                                         *)
(* The model follows the latest revision of the scraper (insertRow,        *)
(* updateRow, formatAddress, parse, main).  That revision exists twice: as *)
(* the compiled script, whose insertRow runs "insert or ignore", and as    *)
(* the TypeScript source, whose insertRow runs "insert or replace"; the    *)
(* variable build says which of the two runs.  Text is modelled as a       *)
(* sequence of one-character strings so that the regular expressions, the  *)
(* token split and the edit distance of formatAddress are computed, not    *)
(* assumed.                                                                *)
(***************************************************************************)
EXTENDS Integers, Sequences, FiniteSets, TLC

(***************************************************************************)
(* Text helpers.                                                           *)
(***************************************************************************)

\* The empty string "".
Empty == << >>

Min2(a, b) == IF a <= b THEN a ELSE b

\* String.prototype.substring(from) with a 1-based index: the text from
\* position from to the end.
Drop(s, n) == IF n >= Len(s) THEN << >> ELSE SubSeq(s, n + 1, Len(s))

\* The first n characters of s.
Take(s, n) == IF n <= 0 THEN << >> ELSE SubSeq(s, 1, Min2(n, Len(s)))

\* String.prototype.startsWith.
StartsWith(s, p) == Len(p) <= Len(s) /\ SubSeq(s, 1, Len(p)) = p

\* String.prototype.endsWith.
EndsWith(s, p) ==
    Len(p) <= Len(s) /\ SubSeq(s, Len(s) - Len(p) + 1, Len(s)) = p

\* Letters with a distinct upper-case form that occur in the modelled texts.
LowerLetters ==
    << "a", "b", "c", "d", "e", "f", "g", "h", "i", "j", "k", "l", "m",
       "n", "o", "p", "q", "r", "s", "t", "u", "v", "w", "x", "y", "z" >>

UpperLetters ==
    << "A", "B", "C", "D", "E", "F", "G", "H", "I", "J", "K", "L", "M",
       "N", "O", "P", "Q", "R", "S", "T", "U", "V", "W", "X", "Y", "Z" >>

UpperChar(c) ==
    IF \E i \in 1..26 : LowerLetters[i] = c
    THEN UpperLetters[CHOOSE i \in 1..26 : LowerLetters[i] = c]
    ELSE c

LowerChar(c) ==
    IF \E i \in 1..26 : UpperLetters[i] = c
    THEN LowerLetters[CHOOSE i \in 1..26 : UpperLetters[i] = c]
    ELSE c

\* String.prototype.toUpperCase.
toUpperCase(s) == [i \in 1..Len(s) |-> UpperChar(s[i])]

\* String.prototype.toLowerCase.
toLowerCase(s) == [i \in 1..Len(s) |-> LowerChar(s[i])]

\* The characters matched by \s that occur in the modelled texts.
IsSpace(c) == c = " "

RECURSIVE TrimLeft(_)
TrimLeft(s) ==
    IF s # << >> /\ IsSpace(s[1]) THEN TrimLeft(Tail(s)) ELSE s

RECURSIVE TrimRight(_)
TrimRight(s) ==
    IF s # << >> /\ IsSpace(s[Len(s)])
    THEN TrimRight(SubSeq(s, 1, Len(s) - 1))
    ELSE s

\* String.prototype.trim.
trim(s) == TrimRight(TrimLeft(s))

\* replace(/^\. /g, " "): a dot and a space at the very start become a space.
ReplaceLeadingDot(s) ==
    IF StartsWith(s, << ".", " " >>) THEN << " " >> \o Drop(s, 2) ELSE s

\* replace(/ \. /g, " "): every match of space, dot, space, found left to
\* right with the scan resuming after the end of the previous match.
RECURSIVE ReplaceEmbeddedDot(_)
ReplaceEmbeddedDot(s) ==
    IF s = << >> THEN << >>
    ELSE IF StartsWith(s, << " ", ".", " " >>)
         THEN << " " >> \o ReplaceEmbeddedDot(Drop(s, 3))
         ELSE << s[1] >> \o ReplaceEmbeddedDot(Tail(s))

\* Position of the first ")" in s, or 0 when there is none.
RECURSIVE IndexOfClose(_, _)
IndexOfClose(s, i) ==
    IF i > Len(s) THEN 0
    ELSE IF s[i] = ")" THEN i
    ELSE IndexOfClose(s, i + 1)

\* replace(/ \(Hd.*?\)/gi, ""): a space, "(", "hd" in any case, then the
\* shortest run of characters up to a ")" is removed, for every match.
RECURSIVE RemoveHundredBrackets(_)
RemoveHundredBrackets(s) ==
    IF s = << >> THEN << >>
    ELSE IF /\ Len(s) >= 4
            /\ s[1] = " "
            /\ s[2] = "("
            /\ UpperChar(s[3]) = "H"
            /\ UpperChar(s[4]) = "D"
            /\ IndexOfClose(s, 5) # 0
         THEN RemoveHundredBrackets(Drop(s, IndexOfClose(s, 5)))
         ELSE << s[1] >> \o RemoveHundredBrackets(Tail(s))

\* replace(/\s\s+/g, " "): every run of two or more spaces becomes one space.
RECURSIVE CollapseSpaces(_)
CollapseSpaces(s) ==
    IF s = << >> THEN << >>
    ELSE IF Len(s) >= 2 /\ IsSpace(s[1]) /\ IsSpace(s[2])
         THEN CollapseSpaces(Tail(s))
         ELSE << s[1] >> \o CollapseSpaces(Tail(s))

\* address.split(" "): the pieces between single spaces ("" splits to [""]).
RECURSIVE SplitFrom(_, _)
SplitFrom(s, cur) ==
    IF s = << >> THEN << cur >>
    ELSE IF s[1] = " " THEN << cur >> \o SplitFrom(Tail(s), << >>)
    ELSE SplitFrom(Tail(s), Append(cur, s[1]))

split(s) == SplitFrom(s, << >>)

\* Array.prototype.join(" ").
RECURSIVE join(_)
join(tokens) ==
    IF tokens = << >> THEN << >>
    ELSE IF Len(tokens) = 1 THEN tokens[1]
    ELSE tokens[1] \o << " " >> \o join(Tail(tokens))

\* tokens.slice(-index): the last index tokens (all of them when fewer).
SliceLast(tokens, index) ==
    IF index >= Len(tokens) THEN tokens
    ELSE SubSeq(tokens, Len(tokens) - index + 1, Len(tokens))

\* The tokens with nothing removed.
SpliceLast_kept(tokens, index) == tokens

\* tokens.splice(-index, index): what is left once the last index tokens
\* are removed.
SpliceLast(tokens, index) ==
    IF index >= Len(tokens) THEN << >>
    ELSE SubSeq(tokens, 1, Len(tokens) - index)


(***************************************************************************)
(* Reference data: the suburb names and hundred names that main reads at   *)
(* startup (upper-cased and trimmed there).                                *)
(***************************************************************************)

W_EDITHBURGH == << "E", "D", "I", "T", "H", "B", "U", "R", "G", "H" >>
W_CLINTON == << "C", "L", "I", "N", "T", "O", "N" >>
W_PORT == << "P", "O", "R", "T" >>
W_MELVILLE == << "M", "E", "L", "V", "I", "L", "L", "E" >>
W_HD == << "H", "D" >>
W_SA == << "S", "A" >>
Sp == << " " >>
CommaSp == << ",", " " >>

\* SuburbNames: the keys in the order of the lines of suburbnames.txt, each
\* with the text after the comma.
SuburbNames ==
    << [key |-> W_CLINTON, value |-> W_CLINTON \o Sp \o W_SA \o Sp \o << "5", "5", "7", "1" >>],
       [key |-> W_PORT \o Sp \o W_CLINTON,
        value |-> W_PORT \o Sp \o W_CLINTON \o Sp \o W_SA \o Sp \o << "5", "5", "7", "0" >>],
       [key |-> W_EDITHBURGH, value |-> W_EDITHBURGH \o Sp \o W_SA \o Sp \o << "5", "5", "8", "3" >>] >>

\* HundredNames: the lines of hundrednames.txt.
HundredNames == << W_MELVILLE, W_CLINTON >>

\* Object.keys(SuburbNames).
SuburbKeys == [i \in 1..Len(SuburbNames) |-> SuburbNames[i].key]

\* The key itself in place of the text stored for it.
SuburbValue_key(key) == key

\* SuburbNames[suburbNameMatch].
SuburbValue(key) ==
    SuburbNames[CHOOSE i \in 1..Len(SuburbNames) : SuburbNames[i].key = key].value

\* The pieces of a line between commas: String.prototype.split(",").
RECURSIVE SplitComma(_, _)
SplitComma(s, cur) ==
    IF s = << >> THEN << cur >>
    ELSE IF s[1] = "," THEN << cur >> \o SplitComma(Tail(s), << >>)
    ELSE SplitComma(Tail(s), Append(cur, s[1]))

\* The lines of suburbnames.txt, and of a suburbnames.txt whose second line
\* has no comma.
SuburbLines ==
    << << "C", "l", "i", "n", "t", "o", "n", ",", "C", "l", "i", "n", "t", "o", "n", " ", "S", "A", " ", "5", "5", "7", "1" >>,
       << "P", "o", "r", "t", " ", "C", "l", "i", "n", "t", "o", "n", ",", " ", "P", "o", "r", "t", " ", "C", "l", "i", "n", "t", "o", "n", " ", "S", "A", " ", "5", "5", "7", "0", " " >>,
       << "E", "D", "I", "T", "H", "B", "U", "R", "G", "H", ",", "E", "D", "I", "T", "H", "B", "U", "R", "G", "H", " ", "S", "A", " ", "5", "5", "8", "3" >> >>

SuburbLinesNoComma ==
    << << "C", "l", "i", "n", "t", "o", "n", ",", "C", "l", "i", "n", "t", "o", "n", " ", "S", "A", " ", "5", "5", "7", "1" >>,
       << "P", "o", "r", "t", " ", "C", "l", "i", "n", "t", "o", "n", " ", "S", "A", " ", "5", "5", "7", "0" >>,
       << "E", "D", "I", "T", "H", "B", "U", "R", "G", "H", ",", "E", "D", "I", "T", "H", "B", "U", "R", "G", "H", " ", "S", "A", " ", "5", "5", "8", "3" >> >>

\* The lines of hundrednames.txt.
HundredLines ==
    << << "M", "e", "l", "v", "i", "l", "l", "e" >>,
       << "C", "L", "I", "N", "T", "O", "N", " " >> >>

\* suburbTokens[1] is undefined, so suburbTokens[1].toUpperCase() throws: the
\* line has no comma.
Malformed(line) == Len(SplitComma(toUpperCase(line), << >>)) < 2

\* The first line of the file that makes the loop of main throw, or 0.
FirstMalformed(lines) ==
    IF \E i \in 1..Len(lines) : Malformed(lines[i])
    THEN CHOOSE i \in 1..Len(lines) :
             /\ Malformed(lines[i])
             /\ \A j \in 1..(i - 1) : ~Malformed(lines[j])
    ELSE 0

\* SuburbNames[suburbTokens[0].toUpperCase().trim()] =
\* suburbTokens[1].toUpperCase().trim(), for the first n lines.
ReadSuburbNames(lines, n) ==
    [i \in 1..n |->
        LET suburbTokens == SplitComma(toUpperCase(lines[i]), << >>)
        IN  [key |-> trim(toUpperCase(suburbTokens[1])),
             value |-> trim(toUpperCase(suburbTokens[2]))]]

\* HundredNames.push(hundredName.toUpperCase().trim()), for every line.
ReadHundredNames(lines) ==
    [i \in 1..Len(lines) |-> trim(toUpperCase(lines[i]))]

\* The files suburbnames.txt of the model.
SuburbFiles == { SuburbLines, SuburbLinesNoComma }

\* The globals SuburbNames and HundredNames as the two loops at the top of
\* main leave them, for each suburbnames.txt: both files read, or the lines
\* before the one on which the first loop throws.
ReadAtStart ==
    [lines \in SuburbFiles |->
        IF FirstMalformed(lines) = 0
        THEN [SuburbNames |-> ReadSuburbNames(lines, Len(lines)),
              HundredNames |-> ReadHundredNames(HundredLines),
              read |-> TRUE]
        ELSE [SuburbNames |-> ReadSuburbNames(lines, FirstMalformed(lines) - 1),
              HundredNames |-> << >>,
              read |-> FALSE]]

\* The globals SuburbNames and HundredNames before main has run.
NotRead == [SuburbNames |-> << >>, HundredNames |-> << >>, read |-> FALSE]


(***************************************************************************)
(* formatAddress.                                                          *)
(***************************************************************************)

\* One row of the edit-distance table: the distances from the first i
\* characters of a to every prefix of b, given the row for i - 1.  (Each
\* step is evaluated before the next one is started.)
RECURSIVE LevRow(_, _, _, _, _)
LevRow(a, b, i, prev, cur) ==
    IF Len(cur) = Len(b) + 1 THEN cur
    ELSE LET j == Len(cur)
             cost == IF a[i] = b[j] THEN 0 ELSE 1
             best == Min2(Min2(prev[j + 1] + 1, cur[j] + 1), prev[j] + cost)
             next == Append(cur, best)
         IN  IF Len(next) > 0 THEN LevRow(a, b, i, prev, next) ELSE next

RECURSIVE LevRows(_, _, _, _)
LevRows(a, b, i, prev) ==
    IF i > Len(a) THEN prev[Len(b) + 1]
    ELSE LET row == LevRow(a, b, i, prev, << i >>)
         IN  IF Len(row) > 0 THEN LevRows(a, b, i + 1, row) ELSE 0

\* The edit distance (insertions, deletions, substitutions) of a and b.
EditDistance(a, b) ==
    LevRows(a, b, 1, [j \in 1..(Len(b) + 1) |-> j - 1])

\* The edit-distance threshold passed to didyoumean.
Threshold == 1

\* The largest and smallest number of trailing tokens tried as a suburb name.
MaxWindow == 4
MinWindow == 1

\* Index of the first entry of matchList closest to input, 0 when matchList
\* is empty.
RECURSIVE FirstClosest(_, _, _, _)
FirstClosest(input, matchList, i, best) ==
    IF i > Len(matchList) THEN best
    ELSE IF best = 0
            \/ EditDistance(input, toLowerCase(matchList[i]))
                 < EditDistance(input, toLowerCase(matchList[best]))
         THEN FirstClosest(input, matchList, i + 1, i)
         ELSE FirstClosest(input, matchList, i + 1, best)

\* The value didyoumean returns when nothing matches.
Null == << "null" >>

\* didyoumean with "threshold: 2".
didyoumean_within2(input, matchList) ==
    LET normalised == toLowerCase(CollapseSpaces(trim(input)))
        best == FirstClosest(normalised, matchList, 1, 0)
    IN  IF best # 0
           /\ EditDistance(normalised, toLowerCase(matchList[best])) <= Threshold + 1
        THEN matchList[best]
        ELSE Null

\* didyoumean(input, matchList, {caseSensitive: false, returnType:
\* "first-closest-match", thresholdType: "edit-distance", threshold: 1,
\* trimSpace: true}): the first entry of matchList at the least edit distance
\* from the input, compared without case, if that distance is within the
\* threshold; null otherwise.
didyoumean(input, matchList) ==
    LET normalised == toLowerCase(CollapseSpaces(trim(input)))
        best == FirstClosest(normalised, matchList, 1, 0)
    IN  IF best # 0
           /\ EditDistance(normalised, toLowerCase(matchList[best])) <= Threshold
        THEN matchList[best]
        ELSE Null

\* The cleaning step at the top of formatAddress.
CleanAddress(text) ==
    trim(CollapseSpaces(RemoveHundredBrackets(
        ReplaceEmbeddedDot(ReplaceLeadingDot(text)))))

\* formatAddress without the hundred-name loop.
EndsWithHundredName_never(text) == FALSE

\* The test of the hundred-name loop of formatAddress.
EndsWithHundredName(text) ==
    LET uppercaseAddress == toUpperCase(text)
    IN  \E h \in 1..Len(HundredNames) :
            \/ uppercaseAddress = W_HD \o Sp \o HundredNames[h]
            \/ EndsWith(uppercaseAddress, Sp \o W_HD \o Sp \o HundredNames[h])

\* The loop from the shortest window up: "for (let index = 1; index <= 4;
\* index++)".
RECURSIVE MatchIndex_shortest(_, _)
MatchIndex_shortest(tokens, index) ==
    IF index < MinWindow THEN 0
    ELSE IF didyoumean(join(SliceLast(tokens, MaxWindow + MinWindow - index)),
                       SuburbKeys) # Null
         THEN MaxWindow + MinWindow - index
         ELSE MatchIndex_shortest(tokens, index - 1)

\* The loop "for (let index = 4; index >= 1; index--)" of formatAddress: the
\* first window size, from index down, whose trailing tokens didyoumean
\* recognises, or 0 when none does.
RECURSIVE MatchIndex(_, _)
MatchIndex(tokens, index) ==
    IF index < MinWindow THEN 0
    ELSE IF didyoumean(join(SliceLast(tokens, index)), SuburbKeys) # Null
         THEN index
         ELSE MatchIndex(tokens, index - 1)

\* The values index takes in the loop of formatAddress, in the order it
\* takes them: the loop ends at the first window didyoumean recognises.
RECURSIVE WindowsTried(_, _)
WindowsTried(tokens, index) ==
    IF index < MinWindow THEN << >>
    ELSE IF didyoumean(join(SliceLast(tokens, index)), SuburbKeys) # Null
         THEN << index >>
         ELSE << index >> \o WindowsTried(tokens, index - 1)

\* formatAddress without the test "if (suburbName === null)": the text
\* "null" is added when no window matches.
formatAddress_noMiss(rawAddress) ==
    LET cleaned == CleanAddress(rawAddress)
        tokens == split(cleaned)
        index == MatchIndex(tokens, MaxWindow)
        suburbName == SuburbValue(didyoumean(join(SliceLast(tokens, index)), SuburbKeys))
        streetName == trim(join(SpliceLast(tokens, index)))
    IN  IF cleaned = Empty THEN cleaned
        ELSE IF EndsWithHundredName(cleaned) THEN cleaned
        ELSE IF index = 0 THEN trim(cleaned \o CommaSp \o Null)
        ELSE trim(streetName \o (IF streetName = Empty THEN Empty ELSE CommaSp) \o suburbName)

\* formatAddress(address).
formatAddress(rawAddress) ==
    LET cleaned == CleanAddress(rawAddress)
        tokens == split(cleaned)
        index == MatchIndex(tokens, MaxWindow)
        suburbName ==
            SuburbValue(didyoumean(join(SliceLast(tokens, index)), SuburbKeys))
        streetName == trim(join(SpliceLast(tokens, index)))
    IN  IF cleaned = Empty THEN cleaned
        ELSE IF EndsWithHundredName(cleaned) THEN cleaned
        ELSE IF index = 0 THEN cleaned
        ELSE trim(streetName
                    \o (IF streetName = Empty THEN Empty ELSE CommaSp)
                    \o suburbName)


(***************************************************************************)
(* Dates: moment(text, "D/MM/YYYY", true) and format("YYYY-MM-DD").        *)
(***************************************************************************)

DigitChars == << "0", "1", "2", "3", "4", "5", "6", "7", "8", "9" >>

IsDigit(c) == \E d \in 1..10 : DigitChars[d] = c

DigitValue(c) == (CHOOSE d \in 1..10 : DigitChars[d] = c) - 1

AllDigits(s) == \A i \in 1..Len(s) : IsDigit(s[i])

RECURSIVE ToNumber(_, _)
ToNumber(s, acc) ==
    IF s = << >> THEN acc ELSE ToNumber(Tail(s), acc * 10 + DigitValue(s[1]))

\* The decimal digits of n, left-padded with zeros to width characters.
RECURSIVE Pad(_, _)
Pad(n, width) ==
    IF width = 0 THEN << >>
    ELSE Pad(n \div 10, width - 1) \o << DigitChars[(n % 10) + 1] >>

\* The pieces of s between slashes.
RECURSIVE SplitSlash(_, _)
SplitSlash(s, cur) ==
    IF s = << >> THEN << cur >>
    ELSE IF s[1] = "/" THEN << cur >> \o SplitSlash(Tail(s), << >>)
    ELSE SplitSlash(Tail(s), Append(cur, s[1]))

DaysInMonth(year, month) ==
    IF month \in {4, 6, 9, 11} THEN 30
    ELSE IF month # 2 THEN 31
    ELSE IF (year % 4 = 0 /\ year % 100 # 0) \/ year % 400 = 0 THEN 29
    ELSE 28

\* moment.invalid().
InvalidMoment == [valid |-> FALSE, year |-> 0, month |-> 0, day |-> 0]

\* moment(text, "D/MM/YYYY", true): strict parsing, the day in one or two
\* digits, the month in two, the year in four.
MomentParse(text) ==
    LET parts == SplitSlash(text, << >>)
    IN  IF /\ Len(parts) = 3
           /\ Len(parts[1]) \in {1, 2} /\ AllDigits(parts[1])
           /\ Len(parts[2]) = 2 /\ AllDigits(parts[2])
           /\ Len(parts[3]) = 4 /\ AllDigits(parts[3])
           /\ ToNumber(parts[2], 0) \in 1..12
           /\ ToNumber(parts[1], 0) >= 1
           /\ ToNumber(parts[1], 0)
                <= DaysInMonth(ToNumber(parts[3], 0), ToNumber(parts[2], 0))
        THEN [valid |-> TRUE, year |-> ToNumber(parts[3], 0),
              month |-> ToNumber(parts[2], 0), day |-> ToNumber(parts[1], 0)]
        ELSE InvalidMoment

\* What format returns for an invalid moment.
InvalidDateText == << "I", "n", "v", "a", "l", "i", "d", " ", "d", "a", "t", "e" >>

\* format("YYYY-MM-DD").
MomentFormat(m) ==
    IF m.valid
    THEN Pad(m.year, 4) \o << "-" >> \o Pad(m.month, 2) \o << "-" >> \o Pad(m.day, 2)
    ELSE InvalidDateText

\* The property receivedDate.isValid as the conditional of parse reads it:
\* the method itself, never called, which is truthy for every moment.
IsValidProperty(m) == TRUE

(***************************************************************************)
(* URLs, as sequences of text chunks.                                      *)
(***************************************************************************)

RegisterUrl ==
    "https://yorke.sa.gov.au/development/development-information/development-register/"

\* The prefix of the like pattern of updateRow.
LegacyPrefix == << RegisterUrl, "entry/" >>

\* encodeURIComponent over the characters of application numbers.
RECURSIVE encodeURIComponent(_)
encodeURIComponent(s) ==
    IF s = << >> THEN << >>
    ELSE (IF s[1] = "/" THEN << "%2F" >>
          ELSE IF s[1] = " " THEN << "%20" >>
          ELSE << s[1] >>) \o encodeURIComponent(Tail(s))

\* InformationUrl.replace(/\{0\}/g, encodeURIComponent(applicationNumber)).
InformationUrl(number) ==
    << RegisterUrl, "?gv_search=&filter_1=" >>
        \o encodeURIComponent(number)
        \o << "&filter_3=&gv_start=&gv_end=&filter_7=&mode=all" >>

CommentUrl == "mailto:admin@yorke.sa.gov.au"

\* The attribute value of a listing row without a detail link.
Undefined == << "undefined" >>

\* The sql value null.
SqlNull == "null"


(***************************************************************************)
(* The database table [data], as the sequence of its rows.                 *)
(***************************************************************************)

\* The row with the day of the run stored as the first on-notice date.
NewRow_stamped(application) ==
    [council_reference |-> application.applicationNumber,
     address |-> application.address,
     description |-> application.description,
     info_url |-> application.informationUrl,
     comment_url |-> application.commentUrl,
     date_scraped |-> application.scrapeDate,
     date_received |-> application.receivedDate,
     on_notice_from |-> application.scrapeDate,
     on_notice_to |-> SqlNull]

\* The row that the insert statement of insertRow builds.
NewRow(application) ==
    [council_reference |-> application.applicationNumber,
     address |-> application.address,
     description |-> application.description,
     info_url |-> application.informationUrl,
     comment_url |-> application.commentUrl,
     date_scraped |-> application.scrapeDate,
     date_received |-> application.receivedDate,
     on_notice_from |-> SqlNull,
     on_notice_to |-> SqlNull]

\* Whether the table has a row with the given primary key.
HasKey(table, reference) ==
    \E i \in 1..Len(table) : table[i].council_reference = reference

\* insertRow with a plain "insert", for a table without the primary key.
insertRow_noIgnore(table, application) ==
    Append(table, NewRow(application))

\* "insert or ignore into [data] values (...)": the row is added unless a
\* row with the same primary key exists.
insertRow(table, application) ==
    IF HasKey(table, application.applicationNumber)
    THEN table
    ELSE Append(table, NewRow(application))

\* this.changes > 0, the value insertRow resolves with.
hasInserted(table, application) ==
    ~HasKey(table, application.applicationNumber)

\* The two revisions of insertRow: the compiled script has the statement
\* above, the TypeScript source has "insert or replace".
Builds == { "js", "ts" }

\* The table without the rows of the given primary key.
Without(table, reference) ==
    SelectSeq(table, LAMBDA row : row.council_reference # reference)

\* "insert or replace" on a table without the primary key: nothing is
\* replaced.
insertRowTs_noKey(table, application) ==
    Append(table, NewRow(application))

\* insertRow of the TypeScript source, "insert or replace into [data] values
\* (...)": a row with the same primary key is deleted and the row is added.
insertRowTs(table, application) ==
    Append(Without(table, application.applicationNumber), NewRow(application))

\* resolve(true) of the TypeScript source, whatever the table held.
hasInsertedTs(table, application) == TRUE

\* insertRow and its result in the given revision.
insertRowOf(script, table, application) ==
    IF script = "ts" THEN insertRowTs(table, application)
    ELSE insertRow(table, application)

hasInsertedOf(script, table, application) ==
    IF script = "ts" THEN hasInsertedTs(table, application)
    ELSE hasInserted(table, application)

\* What insertRow prints of the row: "Inserted:" or "Skipped:" in the
\* compiled script, "Saved:" in the TypeScript source. updateRow prints
\* nothing and resolves with the undefined second argument of its callback.
Logged(script, table, application) ==
    IF script = "ts" THEN "Saved"
    ELSE IF hasInserted(table, application) THEN "Inserted"
    ELSE "Skipped"

\* [info_url] like '.../development-register/entry/%'.
LikeLegacy(url) == StartsWith(url, LegacyPrefix)

\* "update [data] set [info_url] = ? where [info_url] like '.../entry/%' and
\* [council_reference] = ?".
updateRow(table, application) ==
    [i \in 1..Len(table) |->
        IF /\ LikeLegacy(table[i].info_url)
           /\ table[i].council_reference = application.applicationNumber
        THEN [table[i] EXCEPT !.info_url = application.informationUrl]
        ELSE table[i]]

\* The two statements of parse that store an application: insertRow and,
\* when it reports that the row existed, updateRow.
reconcile(script, table, application) ==
    IF hasInsertedOf(script, table, application)
    THEN insertRowOf(script, table, application)
    ELSE updateRow(insertRowOf(script, table, application), application)

(***************************************************************************)
(* The detail page of an application: the rows of its key/value table.     *)
(***************************************************************************)

K_DA_NUMBER == << "D", "A", " ", "N", "U", "M", "B", "E", "R" >>
K_DATE_RECEIVED == << "D", "A", "T", "E", " ", "A", "P", "P", "L", "I", "C", "A", "T", "I", "O", "N", " ", "R", "E", "C", "E", "I", "V", "E", "D" >>
K_DETAILS == << "D", "E", "V", "E", "L", "O", "P", "M", "E", "N", "T", " ", "D", "E", "T", "A", "I", "L", "S" >>

Apos == << "'" >>
AposEntity == << "&", "a", "p", "o", "s", ";" >>

\* replace(/&apos;/g, "'").
RECURSIVE ReplaceApos(_)
ReplaceApos(s) ==
    IF s = << >> THEN << >>
    ELSE IF StartsWith(s, AposEntity)
         THEN Apos \o ReplaceApos(Drop(s, Len(AposEntity)))
         ELSE << s[1] >> \o ReplaceApos(Tail(s))

\* The loop of parse over the rows of the detail page: a later row with the
\* same key replaces the value of an earlier one.
RECURSIVE ParseDetail(_, _)
ParseDetail(trs, acc) ==
    IF trs = << >> THEN acc
    ELSE LET key == trim(toUpperCase(trs[1].th))
             value == trim(trs[1].td)
         IN  ParseDetail(Tail(trs),
                 IF key = K_DA_NUMBER
                 THEN [acc EXCEPT !.applicationNumber = value]
                 ELSE IF key = K_DATE_RECEIVED
                 THEN [acc EXCEPT !.receivedDate = MomentParse(value)]
                 ELSE IF key = K_DETAILS
                 THEN [acc EXCEPT !.description = ReplaceApos(value)]
                 ELSE acc)

\* The values parse starts from before it reads the detail page.
NoDetails ==
    [applicationNumber |-> Empty, receivedDate |-> InvalidMoment,
     description |-> Empty]

\* moment().format("YYYY-MM-DD") for the day of the run.
ScrapeDate(day) ==
    MomentFormat([valid |-> TRUE, year |-> day.year, month |-> day.month,
                  day |-> day.day])

\* The developmentApplication object that parse builds for a listing row and
\* its detail page.
BuildApplication(formatted, details, day) ==
    [applicationNumber |-> details.applicationNumber,
     address |-> formatted,
     description |-> details.description,
     informationUrl |-> InformationUrl(details.applicationNumber),
     commentUrl |-> CommentUrl,
     scrapeDate |-> ScrapeDate(day),
     receivedDate |->
        IF IsValidProperty(details.receivedDate)
        THEN MomentFormat(details.receivedDate)
        ELSE Empty]

\* The condition with the test of the application number left out.
HasNumberAndAddress_addressOnly(number, formatted) ==
    formatted # Empty

\* The condition with the test of the address left out.
HasNumberAndAddress_numberOnly(number, formatted) ==
    number # Empty

\* The condition under which parse hands the application to insertRow.
HasNumberAndAddress(number, formatted) ==
    number # Empty /\ formatted # Empty


(***************************************************************************)
(* The remote site: what a listing page and a detail page can contain.     *)
(***************************************************************************)

\* The most rows a listing page has.
MaxRows == 2

\* The most listing pages the site of specification Spec offers for one
\* date range.
MaxSitePages == 2

\* The page ceiling of the loop of parse.
PageCeiling == 100

\* Texts of the address cell (#gv-field-31-7) of a listing row.
T_EDITHBURGH == << "1", " ", "X", " ", "S", "t", " ", "E", "D", "I", "T", "H", "B", "U", "R", "G", "H", " ", "(", "H", "d", " ", "M", "e", "l", "v", "i", "l", "l", "e", ")" >>
T_HD_CLINTON == << "S", "e", "c", " ", "9", " ", "H", "D", " ", "C", "L", "I", "N", "T", "O", "N", " " >>
T_ONLY_HUNDRED == << ".", " ", "(", "H", "d", " ", "M", "e", "l", "v", "i", "l", "l", "e", ")" >>

AddressTexts == { Empty, T_EDITHBURGH, T_HD_CLINTON, T_ONLY_HUNDRED }

\* The href of the link to a detail page.
EntryUrl == << RegisterUrl, "entry/", "4711/" >>

\* Listing rows: the header row (no link), and rows with a link.
HeaderRow == [href |-> Undefined, text |-> Empty]
RowEdithburgh == [href |-> EntryUrl, text |-> T_EDITHBURGH]
RowHdClinton == [href |-> EntryUrl, text |-> T_HD_CLINTON]
RowOnlyHundred == [href |-> EntryUrl, text |-> T_ONLY_HUNDRED]

\* Application numbers.
N_1 == << "1", "/", "9", "7" >>
N_2 == << "2", "/", "9", "7" >>

\* Detail pages.
DetailFull ==
    << [th |-> << "D", "A", " ", "N", "u", "m", "b", "e", "r" >>, td |-> << " ", "1", "/", "9", "7", " " >>],
       [th |-> << "D", "a", "t", "e", " ", "A", "p", "p", "l", "i", "c", "a", "t", "i", "o", "n", " ", "R", "e", "c", "e", "i", "v", "e", "d" >>, td |-> << "5", "/", "0", "5", "/", "1", "9", "9", "7" >>],
       [th |-> << "D", "e", "v", "e", "l", "o", "p", "m", "e", "n", "t", " ", "D", "e", "t", "a", "i", "l", "s" >>, td |-> << "B", "o", "b", "&", "a", "p", "o", "s", ";", "s", " ", "s", "h", "e", "d" >>] >>
DetailNoDate ==
    << [th |-> << "D", "A", " ", "N", "U", "M", "B", "E", "R" >>, td |-> N_1],
       [th |-> << "D", "E", "V", "E", "L", "O", "P", "M", "E", "N", "T", " ", "A", "D", "D", "R", "E", "S", "S" >>, td |-> T_EDITHBURGH] >>
DetailBadDate ==
    << [th |-> << "D", "A", " ", "N", "U", "M", "B", "E", "R" >>, td |-> N_2],
       [th |-> << "D", "A", "T", "E", " ", "A", "P", "P", "L", "I", "C", "A", "T", "I", "O", "N", " ", "R", "E", "C", "E", "I", "V", "E", "D" >>, td |-> << "3", "1", "/", "0", "4", "/", "1", "9", "9", "7" >>],
       [th |-> << "D", "E", "V", "E", "L", "O", "P", "M", "E", "N", "T", " ", "D", "E", "T", "A", "I", "L", "S" >>, td |-> << "D", "e", "c", "k" >>] >>
DetailNoNumber ==
    << [th |-> << "D", "E", "V", "E", "L", "O", "P", "M", "E", "N", "T", " ", "D", "E", "T", "A", "I", "L", "S" >>, td |-> << "D", "e", "c", "k" >>] >>

DetailPages == { DetailFull, DetailNoDate, DetailBadDate, DetailNoNumber }

\* formatAddress(text.trim()) for every address text of the site.
FormattedAddress == [text \in AddressTexts |-> formatAddress(trim(text))]

\* The values parse reads from every detail page of the site.
ParsedDetail == [page \in DetailPages |-> ParseDetail(page, NoDetails)]

\* The day of a run, as moment() gives it.
Day1 == [year |-> 1997, month |-> 6, day |-> 16]
Day2 == [year |-> 1997, month |-> 7, day |-> 16]

DayNumber(day) == (day.year * 12 + day.month) * 31 + day.day

\* Rows left in data.sqlite by the earlier revision of the scraper, which
\* stored the href of the detail page as the information URL.
LegacyRow ==
    [council_reference |-> N_1,
     address |-> << "1", " ", "X", " ", "S", "t", ",", " ", "E", "D", "I", "T", "H", "B", "U", "R", "G", "H", " ", "S", "A", " ", "5", "5", "8", "3" >>,
     description |-> << "C", "a", "r", "p", "o", "r", "t" >>,
     info_url |-> EntryUrl,
     comment_url |-> CommentUrl,
     date_scraped |-> << "1", "9", "9", "7", "-", "0", "5", "-", "2", "0" >>,
     date_received |-> << "1", "9", "9", "7", "-", "0", "5", "-", "0", "2" >>,
     on_notice_from |-> SqlNull,
     on_notice_to |-> SqlNull]

\* A row left by the first revision, which stored the address of the search.
SearchRow ==
    [council_reference |-> N_2,
     address |-> << "9", " ", "Y", " ", "R", "d", " ", "C", "L", "I", "N", "T", "O", "N" >>,
     description |-> << "F", "e", "n", "c", "e" >>,
     info_url |->
        << RegisterUrl,
           "?gv_search=&filter_1=&filter_3=&gv_start={0}&gv_end={1}&filter_7=&mode=all" >>,
     comment_url |-> CommentUrl,
     date_scraped |-> << "1", "9", "9", "7", "-", "0", "5", "-", "1", "0" >>,
     date_received |-> << "1", "9", "9", "7", "-", "0", "4", "-", "1", "6" >>,
     on_notice_from |-> SqlNull,
     on_notice_to |-> SqlNull]

\* All sequences over set of length at most n.
SeqsUpTo(set, n) == UNION { [1..k -> set] : k \in 0..n }

\* The site of specification Spec: varied rows and detail pages, few pages.
RichSite ==
    [rows |-> { HeaderRow, RowEdithburgh, RowHdClinton, RowOnlyHundred },
     details |-> DetailPages,
     pages |-> MaxSitePages,
     days |-> { Day1, Day2 },
     stores |-> { << >>, << LegacyRow >>, << SearchRow, LegacyRow >> },
     suburbFiles |-> { SuburbLines, SuburbLinesNoComma },
     listings |-> << >>,
     detailMaps |-> { }]

\* The site of specification SpecDeep: few kinds of rows, and a "next page"
\* link possible on every page.
DeepSite ==
    [rows |-> { HeaderRow, RowEdithburgh },
     details |-> { DetailFull, DetailNoNumber },
     pages |-> PageCeiling + 1,
     days |-> { Day1 },
     stores |-> { << >>, << LegacyRow >> },
     suburbFiles |-> { SuburbLines },
     listings |-> << >>,
     detailMaps |-> { }]

\* The bodies a listing request for page n can return.
Bodies(site, n) ==
    { [trs |-> t, next |-> x] :
        t \in SeqsUpTo(site.rows, MaxRows),
        x \in IF n < site.pages THEN BOOLEAN ELSE { FALSE } }


(***************************************************************************)
(* The run of the scraper: main and parse, one action per awaited step.    *)
(***************************************************************************)

VARIABLES
    build,                  \* the revision of insertRow that runs
    pc,                     \* where the run stands
    today,                  \* moment() of the run
    window,                 \* 1: the last month, 2: the random month
    randomMonth,            \* main's randomMonth (0 before it is drawn)
    pageNumber,             \* parse's pageNumber
    trElements,             \* rows of the listing page not yet examined
    hasNextPageLink,        \* whether the listing page has a "next" link
    trElement,              \* the row whose detail page is being requested
    address,                \* parse's address, once the detail page is read
    applicationNumber,      \* parse's applicationNumber, likewise
    developmentApplication, \* the object handed to insertRow and updateRow
    store,                  \* the rows of the table [data]
    outcome,                \* "running", "complete" or "error"
    event,                  \* what the last step did
    requested,              \* listing pages requested so far in this window
    inflight,               \* the requests and statements started, not ended
    pacing,                 \* the last two of: request issued, sleep ended
    scenario,               \* the fixed content of the site, if it is fixed
    suburbnames,            \* the lines of the file suburbnames.txt
    gazetteer               \* the globals SuburbNames and HundredNames

vars ==
    << build, pc, today, window, randomMonth, pageNumber, trElements,
       hasNextPageLink, trElement, address, applicationNumber,
       developmentApplication, store, outcome, event, requested, inflight,
       pacing, scenario, suburbnames, gazetteer >>

\* The year and month offset of main's monthCount.
EpochYear == 1997
EpochMonth == 4

\* main: moment().year() * 12 + moment().month() - (1997 * 12 + 4), where
\* month() counts from 0.
monthCount(day) ==
    day.year * 12 + (day.month - 1) - (EpochYear * 12 + EpochMonth)

\* getRandom that always returns its minimum.
getRandom_minimum(minimum, maximum) == { minimum }

\* getRandom with the maximum among its values.
getRandom_inclusive(minimum, maximum) == minimum..maximum

\* getRandom(minimum, maximum): the values of
\* Math.floor(Math.random() * (maximum - minimum)) + minimum.
getRandom(minimum, maximum) ==
    IF maximum > minimum THEN minimum..(maximum - 1)
    ELSE (minimum + (maximum - minimum))..minimum

\* The locals address and applicationNumber of an iteration of the loop over
\* the rows exist only within that iteration.
OutOfScope == address' = Empty /\ applicationNumber' = Empty

\* The loop condition with <= for <.
WhileCondition_inclusive(n) == n <= PageCeiling

\* while (pageNumber++ < 100).
WhileCondition(n) == n < PageCeiling

\* The test of the "next page" link left out, and the test inverted.
LastPage_never(link) == FALSE
LastPage_inverted(link) == link

\* if (!hasNextPageLink) return.
LastPage(link) == ~link

\* No request was issued and no sleep has ended yet.
NotPaced == << "none", "none" >>

\* A request for a page is issued.
Issued(paces, kind) == << paces[2], kind >>

\* A sleep that takes no time.
Slept_not(paces) == paces

\* await sleep(...): the sleep has ended.
Slept(paces) == << paces[2], "slept" >>

\* A request or statement is started: it is in flight until it has ended.
Started(ops, op) == Append(ops, op)

\* The promise of a request or statement that is not awaited: the run goes
\* on while it is in flight.
Awaited_not(ops, op) == ops

\* await: the run goes on only when the request or statement has ended.
Awaited(ops, op) == SelectSeq(ops, LAMBDA o : o # op)

\* Whether a request or statement of the given kind is in flight.
InFlight(ops, op) == \E i \in 1..Len(ops) : ops[i] = op

\* The site answers every request freely: no content is fixed.
NoScenario == << >>

\* The largest month offset main can draw on the days of a site.
LastOffset(site) ==
    CHOOSE n \in { monthCount(day) : day \in site.days } :
        \A day \in site.days : monthCount(day) <= n

\* The scenarios a specification starts from: none when the site answers
\* freely; otherwise which listing of the site the last month (offset 0) and
\* every month offset main can draw have, the detail page behind every link, the table
\* the first run finds, and whether a run was interrupted after a write and
\* whether a random month was started since.
Scenarios(site, table) ==
    IF site.listings = << >> THEN { NoScenario }
    ELSE { [archive |-> a, detail |-> d, base |-> table,
            interrupted |-> FALSE, historical |-> FALSE] :
              a \in [0..LastOffset(site) -> 1..Len(site.listings)],
              d \in site.detailMaps }

\* Page n of a fixed listing (the rows of its pages): every page but the
\* last has a "next page" link; past the last page there are no rows.
PageOf(listing, n) ==
    IF n <= Len(listing)
    THEN [trs |-> listing[n], next |-> n < Len(listing)]
    ELSE [trs |-> << >>, next |-> FALSE]

\* The scenario once a request has failed: a failure after a write is noted.
Interrupt(s, table) ==
    IF s = NoScenario THEN s
    ELSE [s EXCEPT !.interrupted = @ \/ table # s.base]

\* The scenario once the random month is started.
Historical(s) ==
    IF s = NoScenario THEN s ELSE [s EXCEPT !.historical = TRUE]

InitOn(site) ==
    /\ build \in Builds
    /\ pc = "start"
    /\ today \in site.days
    /\ window = 0
    /\ randomMonth = 0
    /\ pageNumber = 0
    /\ trElements = << >>
    /\ hasNextPageLink = FALSE
    /\ trElement = << >>
    /\ address = Empty
    /\ applicationNumber = Empty
    /\ developmentApplication = << >>
    /\ store \in site.stores
    /\ outcome = "running"
    /\ event = "none"
    /\ requested = 0
    /\ inflight = << >>
    /\ pacing = NotPaced
    /\ scenario \in Scenarios(site, store)
    /\ suburbnames \in site.suburbFiles
    /\ gazetteer = NotRead

\* main with a loop that passes over the lines of suburbnames.txt it cannot
\* read, and goes on.
MainStart_skipping ==
    /\ pc = "start"
    /\ gazetteer' =
          [SuburbNames |->
               LET lines == SelectSeq(suburbnames, LAMBDA l : ~Malformed(l))
               IN  ReadSuburbNames(lines, Len(lines)),
           HundredNames |-> ReadHundredNames(HundredLines),
           read |-> TRUE]
    /\ pc' = "while"
    /\ window' = 1
    /\ event' = "start"
    /\ inflight' = Started(inflight, "create")
    /\ outcome' = outcome
    /\ pageNumber' = 0
    /\ requested' = 0
    /\ UNCHANGED << build, suburbnames, today, randomMonth, trElements,
                    hasNextPageLink, trElement, developmentApplication,
                    store, pacing, scenario >>
    /\ OutOfScope

\* main up to its first call of parse: the reference data is read, the
\* database is opened, the statement that creates the table is started (and
\* not awaited) and parse starts on the last month. When a line of
\* suburbnames.txt makes the loop throw, main rejects there: the catch
\* handler prints the error and the process ends.
MainStart ==
    /\ pc = "start"
    /\ gazetteer' = ReadAtStart[suburbnames]
    /\ IF ReadAtStart[suburbnames].read
       THEN /\ pc' = "while"
            /\ window' = 1
            /\ event' = "start"
            /\ inflight' = Started(inflight, "create")
            /\ outcome' = outcome
       ELSE /\ pc' = "exited"
            /\ window' = window
            /\ event' = "startup_failed"
            /\ inflight' = inflight
            /\ outcome' = "error"
    /\ pageNumber' = 0
    /\ requested' = 0
    /\ UNCHANGED << build, suburbnames, today, randomMonth, trElements,
                    hasNextPageLink, trElement, developmentApplication,
                    store, pacing, scenario >>
    /\ OutOfScope

\* The statement that creates the table ends, at a moment of its own.
CreateTableDone ==
    /\ InFlight(inflight, "create")
    /\ pc # "exited"
    /\ inflight' = SelectSeq(inflight, LAMBDA o : o # "create")
    /\ UNCHANGED << build, suburbnames, gazetteer, pc, today, window, randomMonth, pageNumber,
                    trElements, hasNextPageLink, trElement, address,
                    applicationNumber, developmentApplication, store,
                    outcome, event, requested, pacing, scenario >>

\* main with one call of parse only: its return ends the run.
AfterParse_once ==
    /\ pc' = "exited"
    /\ outcome' = "complete"

\* What follows the return of parse in main: the pause before the second
\* window, or the end of main and the "Complete." message.
AfterParse ==
    IF window = 1
    THEN /\ pc' = "sleep_main"
         /\ outcome' = outcome
    ELSE /\ pc' = "exited"
         /\ outcome' = "complete"

\* while (pageNumber++ < 100): the test and the increment; past the ceiling
\* parse reports the stop and returns.
WhileTest ==
    /\ pc = "while"
    /\ pageNumber' = pageNumber + 1
    /\ IF WhileCondition(pageNumber)
       THEN /\ pc' = "request"
            /\ event' = "request_page"
            /\ requested' = requested + 1
            /\ outcome' = outcome
            /\ inflight' = Started(inflight, "page")
            /\ pacing' = Issued(pacing, "page")
       ELSE /\ AfterParse
            /\ event' = "stopped"
            /\ requested' = requested
            /\ UNCHANGED << inflight, pacing >>
    /\ UNCHANGED << build, suburbnames, gazetteer, today, window, randomMonth, trElements,
                    hasNextPageLink, trElement, developmentApplication,
                    store, scenario >>
    /\ OutOfScope

\* The month offset of the date range parse works on.
Offset == IF window = 1 THEN 0 ELSE randomMonth

\* await request(developmentApplicationsUrl) resolves with a page.
RequestPageOk(site) ==
    /\ pc = "request"
    /\ \E body \in IF scenario = NoScenario
                   THEN Bodies(site, pageNumber)
                   ELSE { PageOf(site.listings[scenario.archive[Offset]],
                                 pageNumber) } :
          /\ trElements' = body.trs
          /\ hasNextPageLink' = body.next
    /\ pc' = "sleep"
    /\ event' = "page"
    /\ inflight' = Awaited(inflight, "page")
    /\ UNCHANGED << build, suburbnames, gazetteer, today, window, randomMonth, pageNumber,
                    trElement, developmentApplication, store, outcome,
                    requested, pacing, scenario >>
    /\ OutOfScope

\* A rejected request that is caught and passed over inside the loop.
Fail_swallowed(label) ==
    /\ pc' = "rows"
    /\ trElement' = << >>
    /\ event' = label
    /\ inflight' = << >>
    /\ OutOfScope
    /\ UNCHANGED << build, suburbnames, gazetteer, today, window, randomMonth, pageNumber,
                    trElements, hasNextPageLink, developmentApplication,
                    store, outcome, requested, pacing, scenario >>

\* A rejected request: parse and main reject, the catch handler of main
\* prints the error and the process ends.
Fail(label) ==
    /\ pc' = "exited"
    /\ outcome' = "error"
    /\ event' = label
    /\ inflight' = << >>
    /\ scenario' = Interrupt(scenario, store)
    /\ UNCHANGED << build, suburbnames, gazetteer, today, window, randomMonth, pageNumber,
                    trElements, hasNextPageLink, trElement,
                    developmentApplication, store, requested, pacing >>
    /\ OutOfScope

\* await request(developmentApplicationsUrl) rejects.
RequestPageFail ==
    /\ pc = "request"
    /\ Fail("page_failed")

\* A sleep whose promise is never resolved: "new Promise(resolve =>
\* setTimeout(() => {}, milliseconds))".
SleepPage_unresolved ==
    /\ pc = "sleep"
    /\ FALSE
    /\ UNCHANGED vars

\* await sleep(2000 + getRandom(0, 5) * 1000) after the listing page.
SleepPage ==
    /\ pc = "sleep"
    /\ pc' = "rows"
    /\ event' = "sleep"
    /\ pacing' = Slept(pacing)
    /\ UNCHANGED << build, suburbnames, gazetteer, today, window, randomMonth, pageNumber,
                    trElements, hasNextPageLink, trElement,
                    developmentApplication, store, outcome, requested,
                    inflight, scenario >>
    /\ OutOfScope

\* Every row is taken to have a link.
HasNoLink_never(row) == FALSE

\* if (developmentApplicationUrl === undefined) continue.
HasNoLink(row) == row.href = Undefined

\* The next row of the listing page: a row without a link is passed over,
\* for a row with a link the detail page is requested.
NextRow ==
    /\ pc = "rows"
    /\ trElements # << >>
    /\ trElements' = Tail(trElements)
    /\ IF HasNoLink(Head(trElements))
       THEN /\ pc' = "rows"
            /\ event' = "no_link"
            /\ trElement' = trElement
            /\ UNCHANGED << inflight, pacing >>
       ELSE /\ pc' = "request_child"
            /\ event' = "request_child"
            /\ trElement' = << Head(trElements) >>
            /\ inflight' = Started(inflight, "child")
            /\ pacing' = Issued(pacing, "child")
    /\ UNCHANGED << build, suburbnames, gazetteer, today, window, randomMonth, pageNumber,
                    hasNextPageLink, developmentApplication, store, outcome,
                    requested, scenario >>
    /\ OutOfScope

\* The same with a formatAddress that remembers its result: the formatted
\* address is kept in SuburbNames under its own upper-case text.
RequestChildOk_learning(site) ==
    /\ pc = "request_child"
    /\ \E childPage \in IF scenario = NoScenario
                        THEN site.details
                        ELSE { scenario.detail[trElement[1].href] } :
          LET details == ParsedDetail[childPage]
          IN  /\ address' = FormattedAddress[trElement[1].text]
              /\ applicationNumber' = details.applicationNumber
              /\ IF HasNumberAndAddress(applicationNumber', address')
                 THEN /\ developmentApplication' =
                             << BuildApplication(address', details, today) >>
                      /\ pc' = "insertRow"
                      /\ event' = "child"
                      /\ inflight' =
                            Started(Awaited(inflight, "child"), "insert")
                 ELSE /\ developmentApplication' = << >>
                      /\ pc' = "rows"
                      /\ event' = "skipped"
                      /\ inflight' = Awaited(inflight, "child")
    /\ gazetteer' =
          IF \E i \in 1..Len(gazetteer.SuburbNames) :
                 gazetteer.SuburbNames[i].key = toUpperCase(address')
          THEN gazetteer
          ELSE [gazetteer EXCEPT !.SuburbNames =
                    Append(@, [key |-> toUpperCase(address'),
                               value |-> address'])]
    /\ trElement' = << >>
    /\ UNCHANGED << build, suburbnames, today, window, randomMonth, pageNumber,
                    trElements, hasNextPageLink, store, outcome, requested,
                    pacing, scenario >>

\* await request(developmentApplicationUrl) resolves: the address of the row
\* is formatted, the detail page is read and, when there is an application
\* number and an address, insertRow is called.
RequestChildOk(site) ==
    /\ pc = "request_child"
    /\ \E childPage \in IF scenario = NoScenario
                        THEN site.details
                        ELSE { scenario.detail[trElement[1].href] } :
          LET details == ParsedDetail[childPage]
          IN  /\ address' = FormattedAddress[trElement[1].text]
              /\ applicationNumber' = details.applicationNumber
              /\ IF HasNumberAndAddress(applicationNumber', address')
                 THEN /\ developmentApplication' =
                             << BuildApplication(address', details, today) >>
                      /\ pc' = "insertRow"
                      /\ event' = "child"
                      /\ inflight' =
                            Started(Awaited(inflight, "child"), "insert")
                 ELSE /\ developmentApplication' = << >>
                      /\ pc' = "rows"
                      /\ event' = "skipped"
                      /\ inflight' = Awaited(inflight, "child")
    /\ trElement' = << >>
    /\ UNCHANGED << build, suburbnames, gazetteer, today, window, randomMonth, pageNumber,
                    trElements, hasNextPageLink, store, outcome, requested,
                    pacing, scenario >>

\* await request(developmentApplicationUrl) rejects.
RequestChildFail ==
    /\ pc = "request_child"
    /\ Fail("child_failed")

\* An insert that the connection runs beside the statement that creates the
\* table: a connection that starts its statements as they come.
InsertRow_unqueued ==
    /\ pc = "insertRow"
    /\ store' = insertRowOf(build, store, developmentApplication[1])
    /\ IF hasInsertedOf(build, store, developmentApplication[1])
       THEN /\ pc' = "rows"
            /\ developmentApplication' = << >>
            /\ inflight' = Awaited(inflight, "insert")
       ELSE /\ pc' = "updateRow"
            /\ developmentApplication' = developmentApplication
            /\ inflight' = Started(Awaited(inflight, "insert"), "update")
    /\ event' = "insert"
    /\ UNCHANGED << build, suburbnames, gazetteer, today, window, randomMonth, pageNumber,
                    trElements, hasNextPageLink, trElement, outcome,
                    requested, pacing, scenario >>
    /\ OutOfScope

\* await insertRow(database, developmentApplication): the statement runs
\* once the statement that creates the table has ended.
InsertRow ==
    /\ pc = "insertRow"
    /\ ~InFlight(inflight, "create")
    /\ store' = insertRowOf(build, store, developmentApplication[1])
    /\ IF hasInsertedOf(build, store, developmentApplication[1])
       THEN /\ pc' = "rows"
            /\ developmentApplication' = << >>
            /\ inflight' = Awaited(inflight, "insert")
       ELSE /\ pc' = "updateRow"
            /\ developmentApplication' = developmentApplication
            /\ inflight' = Started(Awaited(inflight, "insert"), "update")
    /\ event' = "insert"
    /\ UNCHANGED << build, suburbnames, gazetteer, today, window, randomMonth, pageNumber,
                    trElements, hasNextPageLink, trElement, outcome,
                    requested, pacing, scenario >>
    /\ OutOfScope

\* await updateRow(database, developmentApplication).
UpdateRow ==
    /\ pc = "updateRow"
    /\ store' = updateRow(store, developmentApplication[1])
    /\ pc' = "rows"
    /\ developmentApplication' = << >>
    /\ event' = "update"
    /\ inflight' = Awaited(inflight, "update")
    /\ UNCHANGED << build, suburbnames, gazetteer, today, window, randomMonth, pageNumber,
                    trElements, hasNextPageLink, trElement, outcome,
                    requested, pacing, scenario >>
    /\ OutOfScope

\* The end of the loop over the rows: without a "next page" link parse
\* returns, with one the while loop goes on.
EndOfPage ==
    /\ pc = "rows"
    /\ trElements = << >>
    /\ IF LastPage(hasNextPageLink)
       THEN /\ AfterParse
            /\ event' = "last_page"
       ELSE /\ pc' = "while"
            /\ event' = "next_page"
            /\ outcome' = outcome
    /\ UNCHANGED << build, suburbnames, gazetteer, today, window, randomMonth, pageNumber,
                    trElements, hasNextPageLink, trElement,
                    developmentApplication, store, requested, inflight,
                    pacing, scenario >>
    /\ OutOfScope

\* await sleep(5000 + getRandom(0, 10) * 1000), then the random month is
\* drawn and parse starts on it.
SleepMain ==
    /\ pc = "sleep_main"
    /\ randomMonth' \in getRandom(1, monthCount(today) + 1)
    /\ window' = 2
    /\ pageNumber' = 0
    /\ requested' = 0
    /\ pc' = "while"
    /\ event' = "sleep_main"
    /\ pacing' = Slept(pacing)
    /\ scenario' = Historical(scenario)
    /\ UNCHANGED << build, suburbnames, gazetteer, today, trElements, hasNextPageLink, trElement,
                    developmentApplication, store, outcome, inflight >>
    /\ OutOfScope

\* The scraper is started again, on the same day or a later one, with the
\* data.sqlite the previous run left.
Relaunch(site) ==
    /\ pc = "exited"
    /\ today' \in { day \in site.days : DayNumber(day) >= DayNumber(today) }
    /\ pc' = "start"
    /\ window' = 0
    /\ randomMonth' = 0
    /\ pageNumber' = 0
    /\ requested' = 0
    /\ trElements' = << >>
    /\ hasNextPageLink' = FALSE
    /\ trElement' = << >>
    /\ developmentApplication' = << >>
    /\ outcome' = "running"
    /\ event' = "none"
    /\ inflight' = << >>
    /\ pacing' = NotPaced
    /\ gazetteer' = NotRead
    /\ UNCHANGED << build, suburbnames, store, scenario >>
    /\ OutOfScope

NextOn(site) ==
    \/ MainStart
    \/ CreateTableDone
    \/ WhileTest
    \/ RequestPageOk(site)
    \/ RequestPageFail
    \/ SleepPage
    \/ NextRow
    \/ RequestChildOk(site)
    \/ RequestChildFail
    \/ InsertRow
    \/ UpdateRow
    \/ EndOfPage
    \/ SleepMain
    \/ Relaunch(site)

Init == InitOn(RichSite)
Next == NextOn(RichSite)
Spec == Init /\ [][Next]_vars

InitDeep == InitOn(DeepSite)
NextDeep == NextOn(DeepSite)
SpecDeep == InitDeep /\ [][NextDeep]_vars

\* A site whose listing has a "next page" link on every page a run can
\* ask for, one entry to a page, and detail pages that are complete.
EndlessSite ==
    [DeepSite EXCEPT !.rows = { RowEdithburgh }, !.details = { DetailFull }]

InitEndless == InitOn(EndlessSite)

\* One run of the script: it is not started anew.
NextEndless ==
    \/ MainStart
    \/ CreateTableDone
    \/ WhileTest
    \/ RequestPageOk(EndlessSite)
    \/ RequestPageFail
    \/ SleepPage
    \/ NextRow
    \/ RequestChildOk(EndlessSite)
    \/ RequestChildFail
    \/ InsertRow
    \/ UpdateRow
    \/ EndOfPage
    \/ SleepMain

\* Every request is answered or fails, every statement of the store and
\* every sleep ends: while a step of main or parse is pending, one is taken.
Completion == WF_vars(NextEndless)

SpecEndless == InitEndless /\ [][NextEndless]_vars /\ Completion

\* The link of a second entry of the listing.
EntryUrl2 == << RegisterUrl, "entry/", "4712/" >>

\* A row of the listing with the second link.
RowSecond == [href |-> EntryUrl2, text |-> T_HD_CLINTON]

\* A site whose content is fixed for the life of the store: the listing of
\* every date range is one of three (two pages, one page with the rows in
\* the other order, no entry), and the two links lead either to two
\* applications or to two pages of the same application.
FixedSite ==
    [rows |-> { },
     details |-> { },
     pages |-> MaxSitePages,
     days |-> { Day1 },
     stores |-> { << >>, << LegacyRow >> },
     suburbFiles |-> { SuburbLines },
     listings |-> << << << HeaderRow, RowEdithburgh >>, << RowSecond >> >>,
                     << << RowSecond, RowEdithburgh >> >>,
                     << << HeaderRow >> >> >>,
     detailMaps |-> { (EntryUrl :> DetailFull) @@ (EntryUrl2 :> DetailBadDate),
                      (EntryUrl :> DetailFull) @@ (EntryUrl2 :> DetailNoDate) }]

InitRerun == InitOn(FixedSite)
NextRerun == NextOn(FixedSite)
SpecRerun == InitRerun /\ [][NextRerun]_vars

\* Days of the years in which the scraper runs: early in a month, at the
\* end of a month of 31 days, and the last of February in a leap year.
DayEarly == [year |-> 2018, month |-> 11, day |-> 5]
DayEnd == [year |-> 2019, month |-> 3, day |-> 31]
DayLeap == [year |-> 2020, month |-> 2, day |-> 29]

\* A site with one fixed listing for every date range, on those days.
CalendarSite ==
    [rows |-> { },
     details |-> { },
     pages |-> MaxSitePages,
     days |-> { DayEarly, DayEnd, DayLeap },
     stores |-> { << LegacyRow >> },
     suburbFiles |-> { SuburbLines },
     listings |-> << << << HeaderRow, RowEdithburgh >>, << RowSecond >> >> >>,
     detailMaps |-> { (EntryUrl :> DetailFull) @@ (EntryUrl2 :> DetailBadDate) }]

InitCalendar == InitOn(CalendarSite)
NextCalendar == NextOn(CalendarSite)
SpecCalendar == InitCalendar /\ [][NextCalendar]_vars

\* moment().subtract(n, "months"): the month goes back by n and the day of
\* the month is kept, or is the last day of the month reached when that
\* month is shorter.
SubtractMonths(day, n) ==
    LET months == day.year * 12 + (day.month - 1) - n
        y == months \div 12
        m == (months % 12) + 1
    IN  [year |-> y, month |-> m, day |-> Min2(day.day, DaysInMonth(y, m))]

\* The arguments dateFrom and dateTo of the second call of parse in main.
DateFrom(day, r) == SubtractMonths(day, r + 1)
DateTo(day, r) == SubtractMonths(day, r)

\* "first recorded development application is 16th April 1997".
FirstRecorded == [year |-> 1997, month |-> 4, day |-> 16]

\* The site of fixed content on a day on which main draws one of two months.
FairSite == [FixedSite EXCEPT !.days = { Day2 }]

InitFair == InitOn(FairSite)
NextFair == NextOn(FairSite)

\* Every request is answered, every statement and every sleep ends, the
\* script is run again whenever it has ended, and Math.random() is fair: a
\* month offset that can be drawn again and again is drawn.
Fairness ==
    /\ WF_vars(MainStart)
    /\ WF_vars(CreateTableDone)
    /\ WF_vars(WhileTest)
    /\ WF_vars(RequestPageOk(FairSite))
    /\ WF_vars(SleepPage)
    /\ WF_vars(NextRow)
    /\ WF_vars(RequestChildOk(FairSite))
    /\ WF_vars(InsertRow)
    /\ WF_vars(UpdateRow)
    /\ WF_vars(EndOfPage)
    /\ WF_vars(Relaunch(FairSite))
    /\ \A r \in 1..LastOffset(FairSite) :
           SF_vars(SleepMain /\ randomMonth' = r)

SpecFair == InitFair /\ [][NextFair]_vars /\ Fairness

\* The number of pieces of an address text.
MaxTokens == 3

\* Pieces of address texts: a house number, words of the keys of the
\* gazetteer in either case and misspelt, the hundred marker, a stray dot, a
\* hundred in brackets, and nothing (which doubles a space).
Pieces ==
    { << "5" >>,
      << "P", "o", "r", "t" >>,
      << "P", "O", "R", "K" >>,
      << "C", "L", "I", "N", "T", "O", "N" >>,
      << "H", "d" >>,
      << "." >>,
      << "(", "H", "d", " ", "M", "e", "l", "v", "i", "l", "l", "e", ")" >>,
      << >> }

\* Texts with two isolated dots in a row, with a hundred in brackets that
\* follows a word without a space, and with two hundreds in brackets.
NotedAddresses ==
    { << "5", " ", ".", " ", ".", " ", "C", "L", "I", "N", "T", "O", "N" >>,
      << "5", " ", "C", "L", "I", "N", "T", "O", "N", "(", "H", "d", " ", "M", "e", "l", "v", "i", "l", "l", "e", ")" >>,
      << "5", " ", "(", "h", "d", " ", "A", ")", " ", "P", "o", "r", "t", " ", "(", "H", "D", " ", "B", ")", " ", "C", "L", "I", "N", "T", "O", "N" >> }

\* The texts formatAddress is applied to: up to MaxTokens pieces with a
\* space between them, and the texts above.
RawAddresses ==
    { join(pieces) : pieces \in SeqsUpTo(Pieces, MaxTokens) }
        \cup NotedAddresses

\* The call formatAddress(...) of parse has its argument.
InitAddress ==
    /\ build = "js"
    /\ pc = "formatAddress"
    /\ today = Day1
    /\ window = 1
    /\ randomMonth = 0
    /\ pageNumber = 1
    /\ trElements = << >>
    /\ hasNextPageLink = FALSE
    /\ \E text \in RawAddresses :
          trElement = << [href |-> EntryUrl, text |-> text] >>
    /\ address = Empty
    /\ applicationNumber = Empty
    /\ developmentApplication = << >>
    /\ store = << >>
    /\ outcome = "running"
    /\ event = "child"
    /\ requested = 1
    /\ inflight = << >>
    /\ pacing = NotPaced
    /\ scenario = NoScenario
    /\ suburbnames = SuburbLines
    /\ gazetteer = [SuburbNames |-> ReadSuburbNames(SuburbLines, Len(SuburbLines)),
                    HundredNames |-> ReadHundredNames(HundredLines),
                    read |-> TRUE]

\* let address = formatAddress(...): the function returns.
FormatAddress ==
    /\ pc = "formatAddress"
    /\ address' = formatAddress(trElement[1].text)
    /\ pc' = "formatted"
    /\ event' = "formatAddress"
    /\ UNCHANGED << build, suburbnames, gazetteer, today, window, randomMonth, pageNumber,
                    trElements, hasNextPageLink, trElement,
                    applicationNumber, developmentApplication, store,
                    outcome, requested, inflight, pacing, scenario >>

NextAddress == FormatAddress
SpecAddress == InitAddress /\ [][NextAddress]_vars

\* The loop of parse over the rows of a page when no request fails: every
\* row with a link, an application number and an address is stored.
RECURSIVE ParseRows(_, _, _, _, _)
ParseRows(script, table, rows, detail, day) ==
    IF rows = << >> THEN table
    ELSE LET row == Head(rows)
             details == ParsedDetail[detail[row.href]]
             formatted == FormattedAddress[row.text]
             stored ==
                 IF row.href = Undefined THEN table
                 ELSE IF HasNumberAndAddress(details.applicationNumber,
                                             formatted)
                      THEN reconcile(script, table,
                               BuildApplication(formatted, details, day))
                      ELSE table
         IN  ParseRows(script, stored, Tail(rows), detail, day)

\* parse over the pages of a fixed listing, from page 1, when no request
\* fails.
RECURSIVE ParsePages(_, _, _, _, _)
ParsePages(script, table, listing, detail, day) ==
    IF listing = << >> THEN table
    ELSE ParsePages(script,
                    ParseRows(script, table, Head(listing), detail, day),
                    Tail(listing), detail, day)


(***************************************************************************)
(* Properties of the store.                                                *)
(***************************************************************************)

\* Two rows that agree in every column except, possibly, info_url.
SameButUrl(a, b) == a = [b EXCEPT !.info_url = a.info_url]

\* The row of the table at position i has the given key.
KeyAt(table, i, reference) == table[i].council_reference = reference

\* The rows of a table.
Rows(table) == { table[i] : i \in 1..Len(table) }

\* The rows of a table with the given primary key.
RowsOf(table, reference) ==
    { row \in Rows(table) : row.council_reference = reference }

\* The steps that end the storing of an application: insertRow has inserted,
\* or updateRow has run.
Reconciled == (pc = "insertRow" /\ pc' = "rows") \/ pc = "updateRow"

\* C1: the table never holds two rows with the same council_reference, and
\* no row has an empty council_reference.
C1_UniqueNonEmptyKeys ==
    /\ \A i, j \in 1..Len(store) :
          store[i].council_reference = store[j].council_reference => i = j
    /\ \A i \in 1..Len(store) : store[i].council_reference # Empty

\* An application whose number was in a table of two rows has been stored.
C1_Witness ==
    /\ Len(store) >= 2
    /\ event \in { "insert", "update" }
    /\ pc = "rows"
    /\ \E row \in Rows(store) :
          row.council_reference = N_1 /\ row.date_scraped # ScrapeDate(today)

\* C2: no step changes the address, description, date_received,
\* date_scraped or comment_url of a row that is in the table, or removes the
\* row; so a later application with the same number leaves them as the
\* first insert wrote them.
C2_FirstValuesKept ==
    [][\A row \in Rows(store) :
          \E later \in RowsOf(store', row.council_reference) :
              SameButUrl(later, row)]_vars

C4_Idempotent ==
    pc = "insertRow" =>
        LET once == reconcile(build, store, developmentApplication[1])
            twice == reconcile(build, once, developmentApplication[1])
        IN  /\ Len(twice) = Len(once)
            /\ \A i \in 1..Len(once) :
                  \/ twice[i] = once[i]
                  \/ /\ \E row \in RowsOf(store, once[i].council_reference) :
                            LikeLegacy(row.info_url)
                     /\ twice[i] =
                          [once[i] EXCEPT
                              !.info_url = developmentApplication[1].informationUrl]

\* An application is about to be stored whose number has a row with a
\* legacy info_url and other values than the application has, so that
\* storing it changes the table.
C4_Witness ==
    /\ pc = "insertRow"
    /\ \E row \in RowsOf(store, developmentApplication[1].applicationNumber) :
          /\ LikeLegacy(row.info_url)
          /\ row.description # developmentApplication[1].description
    /\ reconcile(build, store, developmentApplication[1]) # store

\* C5: storing an application whose number has a row with a legacy info_url
\* turns that row into the same row with the information URL built from the
\* number, which is not a legacy one; and an info_url that is not a legacy
\* one never becomes one.
C5_LegacyConverges ==
    [][/\ Reconciled =>
            \A row \in RowsOf(store, developmentApplication[1].applicationNumber) :
                LikeLegacy(row.info_url) =>
                    /\ [row EXCEPT
                          !.info_url = InformationUrl(row.council_reference)]
                          \in Rows(store')
                    /\ ~LikeLegacy(InformationUrl(row.council_reference))
       /\ \A row \in Rows(store) :
            ~LikeLegacy(row.info_url) =>
                \A later \in RowsOf(store', row.council_reference) :
                    ~LikeLegacy(later.info_url)]_vars

(***************************************************************************)
(* Properties of the crawl.                                                *)
(***************************************************************************)

\* The positions of parse between the arrival of a listing page and the end
\* of the loop over its rows.
InPage == { "sleep", "rows", "request_child", "insertRow", "updateRow" }

\* The positions after the return of parse.
AfterWindow == { "sleep_main", "exited" }

\* C6: a window never requests more than PageCeiling listing pages, whatever
\* "next page" links the pages have, and when it stops at the ceiling no row
\* of the last page is left unexamined.
C6_PageCeiling ==
    /\ requested <= PageCeiling
    /\ pc = "request" => pageNumber <= PageCeiling
    /\ event = "stopped" =>
          /\ requested = PageCeiling
          /\ trElements = << >>
          /\ trElement = << >>
          /\ developmentApplication = << >>

\* The window has stopped at the ceiling although the last page had a
\* "next page" link.
C6_Witness ==
    event = "stopped" /\ hasNextPageLink /\ pageNumber = PageCeiling + 1

\* C7: once the first listing page of a window has arrived without a "next
\* page" link, the window requests no other listing page: it stays on page
\* 1 until parse returns.
C7_SinglePage ==
    [][(pc \in InPage /\ pageNumber = 1 /\ ~hasNextPageLink) =>
          /\ requested = 1
          /\ pc' \in InPage \cup AfterWindow
          /\ pc' \in InPage =>
                requested' = 1 /\ pageNumber' = 1 /\ ~hasNextPageLink']_vars

\* parse has returned from a first page without a "next page" link.
C7_Witness ==
    event = "last_page" /\ pageNumber = 1 /\ requested = 1

\* The statement that creates the table ends: no step of parse or main.
CreateEnds ==
    /\ InFlight(inflight, "create")
    /\ ~InFlight(inflight', "create")
    /\ pc' = pc
    /\ event' = event

\* C8: a listing page is requested with the number one above the number of
\* pages requested before it in the window, and, unless it is the first,
\* only when the page before it had a "next page" link and its number was
\* below the ceiling; at the end of a page with such a link below the
\* ceiling the next page is requested; after the return of parse nothing is
\* requested for the window.
C8_PagesInOrder ==
    [][CreateEnds \/
       /\ event' = "request_page" =>
            /\ requested' = requested + 1
            /\ pageNumber' = requested'
            /\ requested >= 1 => hasNextPageLink /\ requested < PageCeiling
       /\ (pc = "rows" /\ trElements = << >>
             /\ hasNextPageLink /\ pageNumber < PageCeiling) => pc' = "while"
       /\ (pc = "while" /\ pageNumber < PageCeiling /\ requested = pageNumber)
             => pc' = "request" /\ event' = "request_page"
       /\ pc \in AfterWindow =>
            /\ event' \in { "sleep_main", "none" }
            /\ requested' = 0]_vars

\* The third listing page of the second window is being requested.
C8_Witness ==
    event = "request_page" /\ requested = 3 /\ window = 2

\* C9: once the detail page of a row is read, insertRow is called if and only
\* if the application number and the formatted address are both non-empty;
\* otherwise, and for a row without a link, the table is not written, the
\* run does not fail and goes on with the rows that follow.
C9_SkipIncomplete ==
    [][CreateEnds \/
       /\ (pc = "request_child" /\ event' # "child_failed") =>
            /\ address' = FormattedAddress[trElement[1].text]
            /\ IF applicationNumber' # Empty /\ address' # Empty
               THEN /\ pc' = "insertRow"
                    /\ developmentApplication'[1].applicationNumber
                          = applicationNumber'
                    /\ developmentApplication'[1].address = address'
               ELSE /\ pc' = "rows"
                    /\ developmentApplication' = << >>
            /\ store' = store
            /\ outcome' = "running"
            /\ trElements' = trElements
            /\ hasNextPageLink' = hasNextPageLink
       /\ (pc = "rows" /\ trElements # << >>
             /\ Head(trElements).href = Undefined) =>
            /\ pc' = "rows"
            /\ trElements' = Tail(trElements)
            /\ store' = store
            /\ outcome' = "running"
       /\ pc' = "insertRow" => pc = "request_child"]_vars

\* A row with an application number whose address formats to nothing has
\* been passed over, and another row follows it.
C9_Witness ==
    /\ event = "skipped"
    /\ applicationNumber # Empty
    /\ address = Empty
    /\ trElements # << >>

\* C10: a failed request ends the run with the error, leaves the table as it
\* was, and the run does nothing more: no request, no write, no second
\* window, no completion; only a new run follows, on the same table.
C10_FailureStopsRun ==
    [][/\ event' \in { "page_failed", "child_failed" } =>
            /\ pc' = "exited"
            /\ outcome' = "error"
            /\ store' = store
            /\ window' = window
       /\ outcome = "error" =>
            /\ pc = "exited"
            /\ pc' = "start"
            /\ outcome' = "running"
            /\ window' = 0
            /\ store' = store]_vars

\* The detail request of the first window fails after the run has written
\* a row.
C10_Witness ==
    /\ event = "child_failed"
    /\ window = 1
    /\ \E i \in 1..Len(store) : store[i].date_scraped = ScrapeDate(today)

\* ---------------------------------------------------------------------------
\* An interrupted window and its repetition
\* ---------------------------------------------------------------------------

\* What the claim compares of a row.
Content(row) ==
    [applicationNumber |-> row.council_reference,
     address |-> row.address,
     description |-> row.description,
     receivedDate |-> row.date_received]

Contents(table) == { Content(table[i]) : i \in 1..Len(table) }

\* The last month has been processed to its end and no random month has been
\* started on this store.
RecentWindowDone ==
    /\ scenario # NoScenario
    /\ ~scenario.historical
    /\ window = 1
    /\ pc = "sleep_main"

\* The table after one pass over the last month that no failure interrupts.
SinglePass ==
    ParsePages(build, scenario.base, FixedSite.listings[scenario.archive[0]],
               scenario.detail, today)

\* C11: when the content of the site is fixed, the store after the last
\* month has been processed to its end, whatever runs were interrupted by a
\* failed request before, has the rows of one uninterrupted pass: as many
\* rows, with the same application numbers, addresses, descriptions and
\* received dates.
C11_RerunEqualsSinglePass ==
    RecentWindowDone =>
        /\ Len(store) = Len(SinglePass)
        /\ Contents(store) = Contents(SinglePass)

\* A run was interrupted after it had written to the store, and a later run
\* has processed the last month to its end.
C11_Witness ==
    /\ RecentWindowDone
    /\ scenario.interrupted
    /\ store # scenario.base
    /\ Len(FixedSite.listings[scenario.archive[0]]) = 2

\* ---------------------------------------------------------------------------
\* One request or statement at a time
\* ---------------------------------------------------------------------------

\* The requests and statements in flight that parse started.
StartedByParse == SelectSeq(inflight, LAMBDA o : o # "create")

\* C12 as stated: at every point of a run at most one request or statement
\* of the store is in flight.
C12_OneInFlight == Len(inflight) <= 1

\* C12: apart from the statement that creates the table, which main starts
\* and does not wait for, at most one request or statement is in flight at
\* every point of a run, and it is the one the run is waiting for: the
\* listing page, the detail page, the insert or the update.
C12_OneInFlightButCreate ==
    /\ Len(StartedByParse) <= 1
    /\ StartedByParse =
          IF pc = "request" THEN << "page" >>
          ELSE IF pc = "request_child" THEN << "child" >>
          ELSE IF pc = "insertRow" THEN << "insert" >>
          ELSE IF pc = "updateRow" THEN << "update" >>
          ELSE << >>

\* The detail page of a later row of the first page is requested, what the
\* rows before it started having ended, while the table is still being
\* created.
C12_Witness ==
    /\ inflight = << "create", "child" >>
    /\ event = "request_child"
    /\ requested = 1
    /\ Len(trElements) < MaxRows - 1

\* ---------------------------------------------------------------------------
\* The two windows of a run
\* ---------------------------------------------------------------------------

\* C13: a run in which no request fails processes two windows and no more:
\* the last month; then, only when parse has returned from it (at the last
\* page or at the page ceiling) and after the pause of main, one random
\* month, which can always be drawn; and the run completes only when parse
\* has returned from the random month.
C13_TwoWindowsInOrder ==
    [][ /\ window' # window =>
              \/ pc = "start" /\ window' = 1
              \/ pc = "sleep_main" /\ window = 1 /\ window' = 2
                    /\ event' = "sleep_main" /\ randomMonth' >= 1
              \/ pc = "exited" /\ window' = 0
        /\ (pc' = "sleep_main" /\ pc # "sleep_main") =>
              window = 1 /\ event' \in { "stopped", "last_page" }
        /\ (event' = "stopped" /\ window = 1) => pc' = "sleep_main"
        /\ pc = "sleep_main" =>
              /\ getRandom(1, monthCount(today) + 1) # { }
              /\ outcome = "running"
        /\ (outcome' = "complete" /\ outcome # "complete") =>
              window = 2 /\ event' \in { "stopped", "last_page" }
      ]_vars

\* parse has stopped at the page ceiling in the last month and main is at
\* its pause before the random month.
C13_Witness ==
    /\ window = 1
    /\ event = "stopped"
    /\ pc = "sleep_main"
    /\ pageNumber = PageCeiling + 1

\* ---------------------------------------------------------------------------
\* The random month
\* ---------------------------------------------------------------------------

\* Whether the first day is not after the second.
NotAfter(first, second) == DayNumber(first) <= DayNumber(second)

\* The month offset is between 1 and monthCount, and the window ends a
\* month after it starts and never after today.
OffsetAndEndInRange ==
    window = 2 =>
        /\ 1 <= randomMonth /\ randomMonth <= monthCount(today)
        /\ NotAfter(DateTo(today, randomMonth), today)
        /\ DayNumber(DateFrom(today, randomMonth)) <
              DayNumber(DateTo(today, randomMonth))

\* Every month offset from 1 to monthCount can be drawn.
EveryOffsetDrawable ==
    pc = "sleep_main" =>
        \A r \in 1..monthCount(today) : ENABLED (SleepMain /\ randomMonth' = r)

\* C14 as stated: the offset is in 1..monthCount, every value can be drawn,
\* the window never ends after today and never starts before the day of the
\* first recorded application.
C14_NeverBeforeFirstRecorded ==
    /\ OffsetAndEndInRange
    /\ EveryOffsetDrawable
    /\ window = 2 => NotAfter(FirstRecorded, DateFrom(today, randomMonth))

\* C14: the offset is in 1..monthCount, every value can be drawn, the
\* window never ends after today and never starts before the month of the
\* first recorded application, April 1997.
C14_NeverBeforeFirstMonth ==
    /\ OffsetAndEndInRange
    /\ EveryOffsetDrawable
    /\ window = 2 =>
          NotAfter([FirstRecorded EXCEPT !.day = 1],
                   DateFrom(today, randomMonth))

\* The largest offset is drawn on a day early in the month: the window
\* starts in April 1997, on the day of the month of today.
C14_Witness ==
    /\ window = 2
    /\ pc = "request"
    /\ randomMonth = monthCount(today)
    /\ today.day < FirstRecorded.day
    /\ DateFrom(today, randomMonth) = [FirstRecorded EXCEPT !.day = today.day]

\* ---------------------------------------------------------------------------
\* The archive is covered in the end
\* ---------------------------------------------------------------------------

\* The application numbers parse stores from the listing of a month offset.
NumbersOf(offset) ==
    { row.council_reference :
        row \in Rows(ParsePages(build, << >>,
                                FairSite.listings[scenario.archive[offset]],
                                scenario.detail, today)) }

\* Every application of every month of the archive is in the store.
ArchiveStored ==
    \A offset \in 0..LastOffset(FairSite) :
        \A number \in NumbersOf(offset) : HasKey(store, number)

\* The random month of the given offset has been processed to its end.
Processed(r) ==
    /\ window = 2
    /\ randomMonth = r
    /\ outcome = "complete"

Fetches == { "page", "child" }

\* C16 as stated: no request for a page, listing or detail, is issued right
\* after another without a sleep between them.
C16_DelayBetweenFetches ==
    ~(pacing[1] \in Fetches /\ pacing[2] \in Fetches)

\* C16: a sleep follows every request for a listing page and separates the
\* two windows; the requests for the detail pages of a listing, and the
\* request for the next listing page after them, follow each other without
\* a sleep.
C16_DelayAfterListing ==
    /\ pacing[2] \in Fetches => pacing[1] # "page"
    /\ (pacing[2] = "page" /\ requested = 1) =>
          pacing[1] = (IF window = 2 THEN "slept" ELSE "none")
    /\ pacing[2] = "child" => pacing[1] \in { "slept", "child" }

\* The second listing page of the random month is requested right after a
\* detail page of the first, with no sleep between the two requests.
C16_Witness ==
    /\ pacing = << "child", "page" >>
    /\ window = 2
    /\ requested = 2

\* ---------------------------------------------------------------------------
\* formatAddress
\* ---------------------------------------------------------------------------

\* formatAddress has returned.
Formatted == pc = "formatted"

\* The text given to formatAddress, cleaned, and its tokens.
Cleaned == CleanAddress(trElement[1].text)
Tokens == split(Cleaned)

\* The last n tokens of the cleaned text, joined, and the tokens before them.
Trailing(n) == join(SubSeq(Tokens, Len(Tokens) - n + 1, Len(Tokens)))
Leading(n) == join(SubSeq(Tokens, 1, Len(Tokens) - n))

\* The cleaned text, in upper case, ends with the words HD and the name of a
\* hundred (or is just these).
EndsInHundred ==
    LET words == split(toUpperCase(Cleaned))
    IN  /\ Len(words) >= 2
        /\ words[Len(words) - 1] = W_HD
        /\ \E h \in 1..Len(HundredNames) : words[Len(words)] = HundredNames[h]

\* C17: an address that, cleaned and in upper case, is "HD <name>" or ends
\* with the words "HD <name>" for a hundred name is returned as cleaned, with
\* no suburb put in, also when the name is a key of the gazetteer.
C17_HundredKept ==
    (Formatted /\ EndsInHundred) => address = Cleaned

\* An address in mixed case that ends with "Hd CLINTON", CLINTON being a
\* hundred and a suburb, is returned as cleaned.
C17_Witness ==
    /\ Formatted
    /\ EndsInHundred
    /\ Len(Tokens) = 3
    /\ Tokens[2] # W_HD
    /\ Tokens[3] = W_CLINTON
    /\ address = Cleaned

\* The widest window of the loop over the trailing tokens.
Widest == Min2(MaxWindow, Len(Tokens))

\* The last n tokens are a key of the gazetteer, whatever their case.
ExactAt(n) ==
    \E i \in 1..Len(SuburbKeys) : toUpperCase(Trailing(n)) = SuburbKeys[i]

\* The last n tokens are within one edit of a key, whatever their case.
NearAt(n) ==
    \E i \in 1..Len(SuburbKeys) :
        EditDistance(toLowerCase(Trailing(n)), toLowerCase(SuburbKeys[i]))
            <= Threshold

\* The tokens before the last n, joined by single spaces, then ", " and the
\* canonical text of the key the last n tokens are; that text alone when
\* there are no tokens before them.
WithSuburb(n) ==
    IF n = Len(Tokens)
    THEN SuburbValue(toUpperCase(Trailing(n)))
    ELSE Leading(n) \o CommaSp \o SuburbValue(toUpperCase(Trailing(n)))

\* The address does not end in a hundred name and n is the largest number of
\* trailing tokens that are a key of the gazetteer.
LongestExact(n) ==
    /\ Cleaned # Empty
    /\ ~EndsInHundred
    /\ n \in 1..Widest
    /\ ExactAt(n)
    /\ \A j \in (n + 1)..Widest : ~ExactAt(j)

\* C18 as stated: an address that does not end in a hundred name and whose
\* trailing tokens are a key of the gazetteer, whatever their case, is
\* returned as the tokens before them, ", " and the canonical text of that
\* key.
C18_ExactKeyFormatted ==
    Formatted =>
        \A n \in 1..MaxWindow : LongestExact(n) => address = WithSuburb(n)

\* C18: the same, when no longer window of trailing tokens is within one
\* edit of a key.
C18_ExactKeyFormattedUnlessLonger ==
    Formatted =>
        \A n \in 1..MaxWindow :
            (LongestExact(n) /\ \A j \in (n + 1)..Widest : ~NearAt(j)) =>
                address = WithSuburb(n)

\* "5 Port CLINTON" or the like: the last two tokens are a key in another
\* case, a token is before them, and the result has the canonical text.
C18_Witness ==
    /\ Formatted
    /\ Len(Tokens) = 3
    /\ LongestExact(2)
    /\ Trailing(2) # toUpperCase(Trailing(2))
    /\ ~NearAt(3)
    /\ address = WithSuburb(2)

\* The window of n trailing tokens is the first the loop accepts: it is
\* within one edit of a key and no longer window is.
FirstAccepted(n) ==
    /\ n \in 1..Widest
    /\ NearAt(n)
    /\ \A j \in (n + 1)..Widest : ~NearAt(j)

\* The key the window of n trailing tokens is taken for.
KeyFor(n) == didyoumean(Trailing(n), SuburbKeys)

\* The result when the window of n trailing tokens is taken: the tokens
\* before it, ", " and the canonical text of its key.
WithSuburbOf(n) ==
    IF n = Len(Tokens) THEN SuburbValue(KeyFor(n))
    ELSE Leading(n) \o CommaSp \o SuburbValue(KeyFor(n))

\* C19: the windows are tried from the longest to the shortest and the first
\* that matches a key wins: the result has the key of the longest window
\* within one edit of a key, and all the tokens of that window are removed;
\* so when the last two tokens and the last token match two keys, the key of
\* the two tokens is taken, also when the last token is a key exactly and the
\* last two are not.
C19_LongestWindowWins ==
    (Formatted /\ Cleaned # Empty /\ ~EndsInHundred) =>
        \A n \in 1..MaxWindow : FirstAccepted(n) => address = WithSuburbOf(n)

\* "5 PORK CLINTON": the last token is the key CLINTON, the last two are one
\* edit from PORT CLINTON, and the result is "5, PORT CLINTON SA 5570".
C19_Witness ==
    /\ Formatted
    /\ Len(Tokens) = 3
    /\ ExactAt(1)
    /\ ~ExactAt(2)
    /\ FirstAccepted(2)
    /\ KeyFor(2) # KeyFor(1)
    /\ address = Tokens[1] \o CommaSp \o SuburbValue(W_PORT \o Sp \o W_CLINTON)

\* No window of trailing tokens is within one edit of a key.
NoWindowMatches == \A n \in 1..Widest : ~NearAt(n)

\* C20: for every text, the empty one and those of one token or of fewer
\* than four included, formatAddress returns a string; and when no window
\* matches a key, or the cleaned text is empty, the string is the cleaned
\* text.
C20_TotalAndUnchangedOnMiss ==
    Formatted =>
        /\ address \in Seq(STRING)
        /\ address # Null
        /\ (Cleaned = Empty \/ NoWindowMatches) => address = Cleaned

\* A text of one token that is near no key is returned as it is.
C20_Witness ==
    /\ Formatted
    /\ Len(Tokens) = 1
    /\ Cleaned # Empty
    /\ NoWindowMatches
    /\ ~EndsInHundred
    /\ address = Cleaned

\* ---------------------------------------------------------------------------
\* The reference data at startup
\* ---------------------------------------------------------------------------

\* A line of suburbnames.txt has no comma.
LineWithoutComma ==
    \E i \in 1..Len(suburbnames) :
        \A j \in 1..Len(suburbnames[i]) : suburbnames[i][j] # ","

\* C21: when a line of the suburb list has no comma, main fails at startup,
\* before the database is opened: the first step of the run ends it with an
\* error, no statement of the database and no request is ever started, and
\* the table is not written.
C21_MalformedSuburbsFatal ==
    [][LineWithoutComma =>
          /\ pc = "start" =>
                /\ pc' = "exited"
                /\ outcome' = "error"
                /\ event' = "startup_failed"
          /\ inflight' = << >>
          /\ pacing' = NotPaced
          /\ requested' = 0
          /\ store' = store
          /\ pc' \in { "start", "exited" }]_vars

\* The run has failed at startup on a store that holds a row, with the
\* lines before the one without a comma read.
C21_Witness ==
    /\ LineWithoutComma
    /\ event = "startup_failed"
    /\ outcome = "error"
    /\ store # << >>
    /\ Len(gazetteer.SuburbNames) = 1
    /\ inflight = << >>

\* ---------------------------------------------------------------------------
\* The outcome of storing an application
\* ---------------------------------------------------------------------------

\* The outcome of the contract for a table and an application: Inserted when
\* no row has the number, Updated when a row has it with a legacy info_url
\* (which updateRow rewrites), Unchanged when a row has it otherwise.
ContractOutcome(table, application) ==
    IF ~HasKey(table, application.applicationNumber) THEN "Inserted"
    ELSE IF \E row \in RowsOf(table, application.applicationNumber) :
                LikeLegacy(row.info_url)
         THEN "Updated"
         ELSE "Unchanged"

\* C22 as stated: storing an application reports Inserted, Updated or
\* Unchanged: insertRow resolves with true exactly when no row had the
\* number, and what is reported is Inserted then, Updated when the info_url
\* of the row is rewritten and Unchanged when the row is left as it was.
C22_OutcomeReported ==
    pc = "insertRow" =>
        /\ hasInsertedOf(build, store, developmentApplication[1])
              <=> ~HasKey(store, developmentApplication[1].applicationNumber)
        /\ Logged(build, store, developmentApplication[1])
              = ContractOutcome(store, developmentApplication[1])

\* ---------------------------------------------------------------------------
\* The pages a window reports
\* ---------------------------------------------------------------------------

\* C23 as stated: when parse returns, at a page without a "next page" link or
\* at the page ceiling, the number of pages it reports (the pageNumber of
\* its last message) is the number of listing pages it requested in the
\* window.
C23_PagesReported ==
    event \in { "last_page", "stopped" } => pageNumber = requested

\* ---------------------------------------------------------------------------
\* A window without results
\* ---------------------------------------------------------------------------

\* The first listing page of the window has been received, it has no "next
\* page" link, no row of it examined so far had a link (no detail page was
\* requested since the page) and no row still to examine has one.
InEmptyWindow ==
    /\ pc \in { "sleep", "rows" }
    /\ requested = 1
    /\ ~hasNextPageLink
    /\ pacing[2] # "child"
    /\ \A i \in 1..Len(trElements) : trElements[i].href = Undefined

\* C24: a window whose first listing page has no entry and no "next page"
\* link is completed by the return of parse with nothing stored: no detail
\* page is requested, the table is not written, no further listing page is
\* requested and the run does not fail.
C24_EmptyWindowDone ==
    [][InEmptyWindow =>
          \/ CreateEnds
          \/ /\ store' = store
             /\ requested' = requested
             /\ outcome' # "error"
             /\ pacing' \in { pacing, Slept(pacing) }
             /\ \/ InEmptyWindow'
                \/ /\ event' = "last_page"
                   /\ pc' = (IF window = 1 THEN "sleep_main" ELSE "exited")
                   /\ developmentApplication' = << >>]_vars

\* parse has returned from the random month after one listing page and no
\* request for a detail page: the run is complete.
C24_Witness ==
    /\ event = "last_page"
    /\ window = 2
    /\ requested = 1
    /\ pacing = << "page", "slept" >>
    /\ outcome = "complete"

\* ---------------------------------------------------------------------------
\* The cleaning of an address
\* ---------------------------------------------------------------------------

\* The text has a "(Hd ...)" in it, in any case: "(", H, D, and a ")" after.
HasHundredBrackets(text) ==
    \E i \in 1..Len(text) :
        /\ i + 3 <= Len(text)
        /\ text[i] = "("
        /\ UpperChar(text[i + 1]) = "H"
        /\ UpperChar(text[i + 2]) = "D"
        /\ \E j \in (i + 3)..Len(text) : text[j] = ")"

\* C25 as stated: whatever the text, the result of formatAddress has no
\* "(Hd ...)" in it, in any case, wherever it stood in the text and whether
\* a space came before it or not.
C25_NoHundredBrackets ==
    Formatted => ~HasHundredBrackets(address)

\* C26 as stated: the cleaned address has no isolated "." at its start or
\* between two of its tokens, no two spaces in a row and no space at its
\* start or end.
C26_CleanedIsClean ==
    Formatted =>
        /\ \A i \in 1..(Len(Tokens) - 1) : Tokens[i] # << "." >>
        /\ \A i \in 1..(Len(Cleaned) - 1) :
              ~(IsSpace(Cleaned[i]) /\ IsSpace(Cleaned[i + 1]))
        /\ Cleaned # Empty =>
              ~IsSpace(Cleaned[1]) /\ ~IsSpace(Cleaned[Len(Cleaned)])

\* ---------------------------------------------------------------------------
\* The threshold and the windows of formatAddress
\* ---------------------------------------------------------------------------

\* The text of the window of index trailing tokens, as the loop builds it:
\* all the tokens when there are fewer than index.
WindowText(index) == join(SliceLast(Tokens, index))

\* The least edit distance, without case, from the window to a key.
WindowDistance(index) ==
    LET ds == { EditDistance(toLowerCase(WindowText(index)),
                             toLowerCase(SuburbKeys[i])) :
                    i \in 1..Len(SuburbKeys) }
    IN  CHOOSE d \in ds : \A e \in ds : d <= e

\* The loop of formatAddress is reached: the cleaned text is not empty and
\* does not end in a hundred name.
LoopReached == Formatted /\ Cleaned # Empty /\ ~EndsInHundred

\* The windows the loop tried on the cleaned text.
Tried == WindowsTried(Tokens, MaxWindow)

\* C27: a window is taken for a key exactly when its edit distance to a
\* key, without case, is 0 or 1; a window at distance 2 or more is not
\* taken.  The windows tried are 4, 3, 2, 1 in that order, up to the first
\* one taken: never 0, never 5 or more; the result has a suburb exactly when
\* the last one tried was taken.
C27_ThresholdAndWindows ==
    LoopReached =>
        \A tried \in { Tried } :
            /\ Len(tried) \in 1..4
            /\ \A k \in 1..Len(tried) :
                  /\ tried[k] = 5 - k
                  /\ \A distance \in { WindowDistance(tried[k]) } :
                        IF k < Len(tried) THEN distance >= 2
                        ELSE /\ (address # Cleaned) <=> (distance <= 1)
                             /\ k < 4 => address # Cleaned

\* "5 CLINTON": the windows of 4, 3 and 2 tokens are the whole text, two
\* edits from the key CLINTON, and are not taken; the window of one token is,
\* and the result keeps the "5".
C27_Witness ==
    /\ LoopReached
    /\ Tokens = << << "5" >>, W_CLINTON >>
    /\ WindowDistance(2) = 2
    /\ Tried = << 4, 3, 2, 1 >>
    /\ address = << "5" >> \o CommaSp \o SuburbValue(W_CLINTON)

\* ---------------------------------------------------------------------------
\* The result of formatAddress on a match
\* ---------------------------------------------------------------------------

\* The text the gazetteer read at startup holds for a key.
StoredFor(key) ==
    gazetteer.SuburbNames[
        CHOOSE i \in 1..Len(gazetteer.SuburbNames) :
            gazetteer.SuburbNames[i].key = key].value

\* C28: when a window is taken for a key, exactly or within one edit, the
\* result ends with the text the gazetteer holds for that key, not with the
\* tokens of the window; what comes before it is the cleaned tokens before
\* the window, in their order, joined by single spaces and followed by ", ",
\* or nothing when the window is all the tokens.
C28_EndsWithStoredSuburb ==
    LoopReached =>
        \A tokens \in { Tokens } :
        \A tried \in { WindowsTried(tokens, MaxWindow) } :
        \A last \in { tried[Len(tried)] } :
        \A key \in { didyoumean(join(SliceLast(tokens, last)), SuburbKeys) } :
            key # Null =>
                \A stored \in { StoredFor(key) } :
                \A before \in { SubSeq(tokens, 1, Len(tokens) - last) } :
                    /\ EndsWith(address, stored)
                    /\ Take(address, Len(address) - Len(stored))
                          = IF before = << >> THEN Empty
                            ELSE join(before) \o CommaSp

\* "Port PORK CLINTON": the last two tokens are one edit from the key PORT
\* CLINTON; the result is "Port, PORT CLINTON SA 5570", without the PORK.
C28_Witness ==
    /\ LoopReached
    /\ gazetteer.read
    /\ Tokens = << << "P", "o", "r", "t" >>, << "P", "O", "R", "K" >>, W_CLINTON >>
    /\ Tried = << 4, 3, 2 >>
    /\ WindowDistance(2) = 1
    /\ address = Tokens[1] \o CommaSp \o StoredFor(W_PORT \o Sp \o W_CLINTON)
    /\ ~EndsWith(address, WindowText(2))

\* ---------------------------------------------------------------------------
\* The gazetteer after startup
\* ---------------------------------------------------------------------------

\* The globals when main has read both files.
Loaded ==
    [SuburbNames |-> SuburbNames, HundredNames |-> HundredNames, read |-> TRUE]

\* The step in which parse calls formatAddress on the text of a row.
CallsFormatAddress ==
    pc = "request_child" /\ event' \in { "child", "skipped" }

ParseDone(w) == window = w /\ event \in { "last_page", "stopped" }

\* The run has ended with "Complete." or with the report of an error.
RunEnded == pc = "exited" /\ outcome \in { "complete", "error" }

\* C30: when every request is answered or fails and every statement and
\* sleep ends, each call of parse returns or the run ends with an error, and
\* every run that is started ends with "Complete." or with the report of an
\* error, also on a site whose listing has a "next page" link on every page.
C30_RunTerminates ==
    /\ \A w \in 1..2 :
          (pc = "while" /\ window = w) ~>
              (ParseDone(w) \/ (pc = "exited" /\ outcome = "error"))
    /\ (pc = "start") ~> RunEnded

\* The run is complete after parse has stopped at the ceiling of pages in
\* both of its calls.
C30_Witness ==
    /\ RunEnded
    /\ outcome = "complete"
    /\ ParseDone(2)
    /\ event = "stopped"
    /\ pageNumber = PageCeiling + 1
    /\ store # << >>

\* ---------------------------------------------------------------------------
\* The fields of a row that the run never fills
\* ---------------------------------------------------------------------------

\* C31: every row of the table, at every time, has null in both on-notice
\* dates and the one mailto address as its comment URL; so has the
\* application that parse is about to store.
C31_ReservedFieldsNull ==
    /\ \A i \in 1..Len(store) :
          /\ store[i].on_notice_from = SqlNull
          /\ store[i].on_notice_to = SqlNull
          /\ store[i].comment_url = "mailto:admin@yorke.sa.gov.au"
    /\ \A i \in 1..Len(developmentApplication) :
          developmentApplication[i].commentUrl = "mailto:admin@yorke.sa.gov.au"

\* The run has stored a row of its own beside a row that was in the table
\* when it started, and is complete.
C31_Witness ==
    /\ outcome = "complete"
    /\ Len(store) >= 2
    /\ \E i \in 1..Len(store) : LikeLegacy(store[i].info_url)
    /\ \E i \in 1..Len(store) :
          /\ ~LikeLegacy(store[i].info_url)
          /\ store[i].date_scraped = ScrapeDate(today)
          /\ store[i].on_notice_from = SqlNull

\* ---------------------------------------------------------------------------
\* The information URL of the rows of the run
\* ---------------------------------------------------------------------------

\* The information URL of the row is the template with the row's own
\* application number in it.
BuiltFromTemplate(row) == row.info_url = InformationUrl(row.council_reference)

\* C32 as stated: every row that insertRow adds has the template with its
\* own application number as information URL, which is not of the legacy
\* ".../entry/" form; and whatever is stored later, for the same application
\* number or another, leaves such a row as it is.
C32_InsertedRowsStable ==
    [][/\ pc = "insertRow" =>
             \A j \in 1..Len(store') :
                 (\A i \in 1..Len(store) : store[i] # store'[j]) =>
                     /\ BuiltFromTemplate(store'[j])
                     /\ ~LikeLegacy(store'[j].info_url)
       /\ \A i \in 1..Len(store) :
             BuiltFromTemplate(store[i]) =>
                 \E j \in 1..Len(store') : store'[j] = store[i]]_vars

\* ---------------------------------------------------------------------------
\* The order of the work of parse
\* ---------------------------------------------------------------------------

\* A request or statement of the given kind is started in the step.
Starts(op) == ~InFlight(inflight, op) /\ InFlight(inflight', op)

\* A request or statement of the given kind ends in the step.
Ends(op) == InFlight(inflight, op) /\ ~InFlight(inflight', op)

\* Nothing that parse started for a row is in flight or waits to be stored.
RowSettled ==
    /\ ~InFlight(inflight, "child")
    /\ ~InFlight(inflight, "insert")
    /\ ~InFlight(inflight, "update")
    /\ developmentApplication = << >>

\* An application is built in the step.
Built ==
    developmentApplication' # developmentApplication
        /\ developmentApplication' # << >>

\* C33: in a call of parse the work goes row by row in the order of the
\* listing.  The detail page requested is that of the first row not yet
\* taken, and it is requested only when the row before it is settled (its
\* statements of the store have ended, or it was passed over) and no listing
\* request is pending; the address is formatted and the application built in
\* the step in which the detail request ends; the table changes only in a
\* step that ends a statement started after that; and a listing page is
\* requested only when every row of the page before is taken and settled.
C33_Pipelined ==
    [][/\ Starts("child") =>
             /\ RowSettled
             /\ ~InFlight(inflight, "page")
             /\ trElements # << >>
             /\ trElement' = << Head(trElements) >>
             /\ trElements' = Tail(trElements)
       /\ ((address' # address /\ address' # Empty) \/ Built) =>
             /\ Ends("child")
             /\ developmentApplication = << >>
       /\ Starts("insert") => Ends("child")
       /\ Starts("update") => Ends("insert")
       /\ store' # store =>
             /\ (Ends("insert") \/ Ends("update"))
             /\ ~InFlight(inflight, "child")
             /\ ~InFlight(inflight, "page")
       /\ Starts("page") =>
             /\ RowSettled
             /\ trElements = << >>
             /\ requested' = requested + 1]_vars

\* The second row of a page has its detail page requested after the first
\* was stored: a row is in the table, a detail request is in flight and a
\* row of the page is still to come.
C33_Witness ==
    /\ pc = "request_child"
    /\ InFlight(inflight, "child")
    /\ store # << >>
    /\ \E i \in 1..Len(store) : store[i].date_scraped = ScrapeDate(today)
    /\ trElements # << >>
    /\ developmentApplication = << >>

\* ---------------------------------------------------------------------------
\* The date ranges main can choose, taken together
\* ---------------------------------------------------------------------------

\* The date range of month offset r on a day: r = 0 is the last month, the
\* first call of parse; r >= 1 is the second call with randomMonth = r.
RangeFrom(day, r) == SubtractMonths(day, r + 1)
RangeTo(day, r) == IF r = 0 THEN day ELSE SubtractMonths(day, r)

\* The ranges of the offsets 0..monthCount follow one another without a gap:
\* each starts before it ends, on the day on which the next one ends.
Contiguous(day) ==
    \A r \in 0..monthCount(day) :
        /\ DayNumber(RangeFrom(day, r)) < DayNumber(RangeTo(day, r))
        /\ r < monthCount(day) => RangeTo(day, r + 1) = RangeFrom(day, r)

\* The first day of all the ranges of a day.
EarliestFrom(day) == RangeFrom(day, monthCount(day))

\* main has made its first call of parse and is about to draw the month.
Drawing == pc = "sleep_main"

\* C34 as stated: on every day of a run the range of the last month and the
\* ranges of the offsets 1..monthCount are one range without a gap, from
\* which 16 April 1997 is not missing.
C34_RangesReachFirstRecorded ==
    Drawing =>
        /\ Contiguous(today)
        /\ NotAfter(EarliestFrom(today), FirstRecorded)
        /\ NotAfter(FirstRecorded, today)

\* ---------------------------------------------------------------------------
\* The received date of an application
\* ---------------------------------------------------------------------------

\* The received date the step stores for a detail page as C35 has it: the
\* date as YYYY-MM-DD when the page has a valid one, the empty string when
\* the row is missing or its text is no date.
ReceivedDateFor(page) ==
    IF ParsedDetail[page].receivedDate.valid
    THEN MomentFormat(ParsedDetail[page].receivedDate)
    ELSE Empty

\* C35 as stated: an application with a number and an address goes to
\* insertRow whatever its received date, with the date as YYYY-MM-DD when the
\* detail page has a valid one and with the empty string otherwise; and the
\* row insertRow adds has that value.
C35_ReceivedDateOrEmpty ==
    [][/\ (pc = "request_child" /\ event' = "child") =>
             /\ pc' = "insertRow"
             /\ \E page \in DetailPages :
                   /\ ParsedDetail[page].applicationNumber = applicationNumber'
                   /\ ParsedDetail[page].description =
                         developmentApplication'[1].description
                   /\ developmentApplication'[1].receivedDate =
                         ReceivedDateFor(page)
       /\ (pc = "insertRow" /\ Len(store') > Len(store)) =>
             store'[Len(store')].date_received =
                 developmentApplication[1].receivedDate]_vars

\* ---------------------------------------------------------------------------
\* The table and the first insert
\* ---------------------------------------------------------------------------

InsertWaits ==
    pc = "insertRow" /\ InFlight(inflight, "create")

====
